---- MODULE Spec2Model ----
(***************************************************************************)
(* A model of zepp-export: the Zepp/Huami cloud client (client.py), its    *)
(* payload decoders (decoders.py) and the record exporter (export.py).     *)
(*                                                                         *)
(* Dates ("YYYY-MM-DD" strings in the code) are day numbers; epochs are    *)
(* seconds; a naive local datetime is the number of seconds on the local   *)
(* wall clock, so that datetime.fromtimestamp adds the UTC offset of the   *)
(* machine's zone and strftime("%Y-%m-%d") takes the day part.             *)
(***************************************************************************)
EXTENDS Integers, Sequences, FiniteSets, TLC

VARIABLES
    zone,      \* the machine's local time zone (what datetime.fromtimestamp uses)
    hist,      \* the vendor's stored history: day-key -> raw day record
    call,      \* the client call in progress or last made: method, date, response
    result,    \* what the call returned or raised
    heart_rate_data,   \* export_apple_health's argument: date -> readings
    steps_data,        \* export_apple_health's argument: date -> steps dict
    sleep_data,        \* export_apple_health's argument: date -> sleep dict
    tz_offset_hours,   \* export_apple_health's argument
    exported,          \* the file export_apple_health wrote and the counts it returned
    cache,     \* the server's cache files: <<data type, key>> -> JSON text
    today,     \* the day datetime.now() falls on
    served,    \* the number of requests the server has answered
    cli,       \* the command line given to the CLI, and how the command ended
    disk,      \* the output files of the CLI on disk: records of path and content
    threads,   \* the server's request threads: where each is in its handler
    upstream   \* the values the client has returned to the request threads, in order

clientVars == <<zone, hist, call, result>>
exportVars == <<heart_rate_data, steps_data, sleep_data, tz_offset_hours, exported>>
serverVars == <<cache, today, served>>
cliVars == <<cli, disk>>
raceVars == <<threads, upstream>>
vars == <<clientVars, exportVars, serverVars, cliVars, raceVars>>

---------------------------------------------------------------------------
(* Bounds *)

\* number of day-keys of the vendor history
NumDays == 3
\* number of day records the vendor holds at once
MaxStored == 2
\* number of stages of an exported sleep session
MaxStages == 2
\* length of a str handed to a decoder
MaxText == 5
\* length of a heart-rate byte array
MaxBytes == 4
\* number of items of a JSON list or dict
MaxItems == 2
\* number of rows handed to export_csv
MaxRows == 2
\* the last day the server's clock reaches
LastDay == 2
\* the longest heart-rate byte array
MaxDayBytes == 1441
\* number of requests the server answers
MaxRequests == 2
\* the most days of the date range of a CLI command
MaxRangeDays == 2
\* number of requests the server handles at the same time
MaxThreads == 2

Days == 1..NumDays

---------------------------------------------------------------------------
(* Time *)

SecondsPerMinute == 60
SecondsPerHour == 60 * SecondsPerMinute
SecondsPerDay == 24 * SecondsPerHour

\* the UTC epoch of h:m:s on day k
At(k, h, m, s) == k * SecondsPerDay + h * SecondsPerHour + m * SecondsPerMinute + s

\* zones: UTC; a fixed UTC-6; UTC-6 that moves its clock forward one hour at
\* 08:00 UTC of day 2 (a daylight-saving start)
LocalZones ==
    { [std |-> 0, dst |-> FALSE, dstFrom |-> 0],
      [std |-> -6 * SecondsPerHour, dst |-> FALSE, dstFrom |-> 0],
      [std |-> -6 * SecondsPerHour, dst |-> TRUE, dstFrom |-> At(2, 8, 0, 0)] }

UtcOffset(epoch) ==
    IF zone.dst /\ epoch >= zone.dstFrom
    THEN zone.std + SecondsPerHour
    ELSE zone.std

\* datetime.fromtimestamp(epoch): the naive local datetime
fromtimestamp(epoch) == epoch + UtcOffset(epoch)

\* dt.strftime("%Y-%m-%d") of a naive datetime: its calendar day
strftime_date(dt) == dt \div SecondsPerDay

\* dt.isoformat() of a naive datetime
isoformat(dt) ==
    [day |-> dt \div SecondsPerDay,
     hour |-> (dt % SecondsPerDay) \div SecondsPerHour,
     minute |-> (dt % SecondsPerHour) \div SecondsPerMinute,
     second |-> dt % SecondsPerMinute]

\* int(x / y) of Python for y > 0: the quotient truncated toward zero
TruncDiv(x, y) == IF x >= 0 THEN x \div y ELSE -((-x) \div y)

---------------------------------------------------------------------------
(* Vendor payloads *)

Missing == [kind |-> "missing"]
None == [kind |-> "none"]

Stage(start, stop, mode) == [start |-> start, stop |-> stop, mode |-> mode]

NightStages == <<Stage(1410, 1440, 4), Stage(1440, 1470, 5), Stage(1470, 1490, 8),
                 Stage(1490, 1500, 7), Stage(1500, 1510, 9)>>
NapStages == <<Stage(780, 800, 4)>>

\* the "slp" sub-structure of a day summary; st/ed = 0 stands for an absent or
\* zero field (slp.get(...) is falsy in both cases)
Slp(st, ed) ==
    [kind |-> "obj", st |-> st, ed |-> ed,
     stage |-> IF ed > st THEN NightStages ELSE <<>>,
     odd_stage |-> IF ed - st > 10 * SecondsPerHour THEN NapStages ELSE <<>>,
     rhr |-> 52, ss |-> 80 + (ed % 7), dp |-> 95, lt |-> 260]

Stp(ttl) == [kind |-> "obj", ttl |-> ttl, dis |-> 4100, cal |-> 210, stage |-> <<>>]

\* a decoded summary object; a key that is not there is Missing
SummaryObj(slp, stp) == [slp |-> slp, stp |-> stp]

\* a base64 string: whether it is valid base64, whether the bytes it holds are
\* JSON text, and the value they hold
SummaryBlob(b64ok, jsonok, obj) ==
    [kind |-> "str", b64ok |-> b64ok, jsonok |-> jsonok, obj |-> obj]

HrBlob(b64ok, bytes) == [kind |-> "str", b64ok |-> b64ok, bytes |-> bytes]

RawDay(k, summary, data_hr) == [date_time |-> k, summary |-> summary, data_hr |-> data_hr]

\* start/end epochs of the sessions a band may record under day-key k
SessionTimes(k) ==
    { <<At(k, 22, 0, 0), At(k + 1, 13, 0, 0)>>,
      <<At(k, 2, 0, 0), At(k, 10, 1, 40)>>,
      <<At(k, 22, 0, 0), At(k + 1, 3, 1, 30)>>,
      <<At(k, 22, 0, 0), At(k, 21, 58, 30)>> }

\* the day records the vendor may hold under day-key k
RawDays(k) ==
    { RawDay(k, Missing, HrBlob(TRUE, <<0, 72, 254, 255, 253>>)),
      RawDay(k, SummaryBlob(FALSE, FALSE, SummaryObj(Missing, Missing)), HrBlob(FALSE, <<>>)),
      RawDay(k, SummaryBlob(TRUE, FALSE, SummaryObj(Missing, Missing)), Missing),
      RawDay(k, SummaryBlob(TRUE, TRUE, SummaryObj(Missing, Missing)), HrBlob(TRUE, <<0, 255>>)),
      RawDay(k, SummaryBlob(TRUE, TRUE, SummaryObj(Missing, Stp(6548))), HrBlob(TRUE, <<61>>)),
      RawDay(k, SummaryBlob(TRUE, TRUE, SummaryObj(Slp(At(k, 22, 0, 0), 0), Stp(0))), Missing) }
    \cup
    { RawDay(k, SummaryBlob(TRUE, TRUE, SummaryObj(Slp(t[1], t[2]), Stp(5000))),
             HrBlob(TRUE, <<0, 58>>)) : t \in SessionTimes(k) }

NoRecord == [kind |-> "norecord"]

---------------------------------------------------------------------------
(* decoders.py *)

DecodeError == [ok |-> FALSE, error |-> "ZeppDecodeError"]
Decoded(v) == [ok |-> TRUE, value |-> v]

\* decode_summary: base64-decode, then json.loads
decode_summary(raw_b64) ==
    IF ~raw_b64.b64ok THEN DecodeError
    ELSE IF ~raw_b64.jsonok THEN DecodeError
    ELSE Decoded(raw_b64.obj)

Pad2(n) == IF n < 10 THEN "0" \o ToString(n) ELSE ToString(n)

\* the reading of one byte: its index is the minute, f"{minute // 60:02d}:{minute % 60:02d}"
\* is the label
ReadingAt(hr_bytes, minute) ==
    [minute |-> minute,
     time |-> Pad2(minute \div 60) \o ":" \o Pad2(minute % 60),
     bpm |-> hr_bytes[minute + 1]]

\* mutant: 254 counts as a reading (bpm <= 254)
ReadingsFrom_Inclusive(hr_bytes, i) ==
    LET minutes == SelectSeq([k \in 1..(Len(hr_bytes) + 1 - i) |-> k + i - 2],
                             LAMBDA minute : 0 < hr_bytes[minute + 1] /\ hr_bytes[minute + 1] <= 254)
    IN  [j \in 1..Len(minutes) |-> ReadingAt(hr_bytes, minutes[j])]

\* the readings of bytes i..Len: one per byte v with 0 < v < 254, at minute
\* i - 1, in the order of the bytes
ReadingsFrom(hr_bytes, i) ==
    LET minutes == SelectSeq([k \in 1..(Len(hr_bytes) + 1 - i) |-> k + i - 2],
                             LAMBDA minute : 0 < hr_bytes[minute + 1] /\ hr_bytes[minute + 1] < 254)
    IN  [j \in 1..Len(minutes) |-> ReadingAt(hr_bytes, minutes[j])]

decode_heart_rate(raw_b64) ==
    IF ~raw_b64.b64ok THEN DecodeError ELSE Decoded(ReadingsFrom(raw_b64.bytes, 1))

decode_heart_rate_raw(raw_b64) ==
    IF ~raw_b64.b64ok THEN DecodeError ELSE Decoded(raw_b64.bytes)

---------------------------------------------------------------------------
(* client.py: transport *)

NoStatus == 0

Raise(error, status_code) ==
    [kind |-> "raise", error |-> error, status_code |-> status_code]

IsRaise(r) == r.kind = "raise"

\* what requests.request gives: a network failure, or a status and a body that
\* is JSON or not
NetworkFailure == [net_ok |-> FALSE, status_code |-> NoStatus, json_ok |-> FALSE,
                   code |-> 0, data |-> <<>>]
HttpResponse(status, json_ok, code, data) ==
    [net_ok |-> TRUE, status_code |-> status, json_ok |-> json_ok,
     code |-> code, data |-> data]

\* ZeppClient._request
Request(resp) ==
    IF ~resp.net_ok THEN Raise("ZeppAPIError", NoStatus)
    ELSE IF resp.status_code = 401 THEN Raise("ZeppAuthError", NoStatus)
    ELSE IF resp.status_code # 200 THEN Raise("ZeppAPIError", resp.status_code)
    ELSE IF ~resp.json_ok THEN Raise("ZeppAPIError", NoStatus)
    ELSE [kind |-> "json", code |-> resp.code, data |-> resp.data]

\* mutant: the handler lets the decode error go on
OnSummaryDecodeError_Reraise(day) == [kind |-> "raise"]

\* the `except ZeppDecodeError` handler of the summary: the day gets None
OnSummaryDecodeError(day) == None

\* the `except ZeppDecodeError` handler of data_hr: the day gets empty lists
OnHeartRateDecodeError(day) == [kind |-> "value", list |-> <<>>]

\* the per-day body of ZeppClient._fetch_band_data's loop
DecodeDay(day) ==
    [date |-> day.date_time,
     summary |->
        IF day.summary.kind = "str"
        THEN LET r == decode_summary(day.summary)
             IN  IF r.ok THEN [kind |-> "value", obj |-> r.value]
                 ELSE OnSummaryDecodeError(day)
        ELSE Missing,
     heart_rate |->
        IF day.data_hr.kind = "str"
        THEN LET r == decode_heart_rate(day.data_hr)
                 w == decode_heart_rate_raw(day.data_hr)
             IN  IF r.ok /\ w.ok THEN [kind |-> "value", list |-> r.value]
                 ELSE OnHeartRateDecodeError(day)
        ELSE Missing,
     heart_rate_raw |->
        IF day.data_hr.kind = "str"
        THEN LET r == decode_heart_rate(day.data_hr)
                 w == decode_heart_rate_raw(day.data_hr)
             IN  IF r.ok /\ w.ok THEN [kind |-> "value", list |-> w.value]
                 ELSE OnHeartRateDecodeError(day)
        ELSE Missing]

\* an exception raised inside the loop body leaves _fetch_band_data
DayRaised(d) ==
    d.summary.kind = "raise" \/ d.heart_rate.kind = "raise" \/ d.heart_rate_raw.kind = "raise"

\* ZeppClient._fetch_band_data, given the transport's response to its request
FetchBandData(resp) ==
    LET data == Request(resp)
    IN  IF IsRaise(data) THEN data
        ELSE IF data.code # 1 THEN Raise("ZeppAPIError", 200)
        ELSE LET days == [i \in 1..Len(data.data) |-> DecodeDay(data.data[i])]
             IN  IF \E i \in 1..Len(days) : DayRaised(days[i])
                 THEN Raise("ZeppDecodeError", NoStatus)
                 ELSE [kind |-> "days", days |-> days]

---------------------------------------------------------------------------
(* client.py: band data *)

EmptyResult == [kind |-> "empty"]

\* ZeppClient.get_band_data
get_band_data(date, resp) ==
    LET fetched == FetchBandData(resp)
    IN  IF IsRaise(fetched) THEN fetched
        ELSE IF fetched.days = <<>>
        THEN [kind |-> "day",
              day |-> [date |-> date, summary |-> None,
                       heart_rate |-> [kind |-> "value", list |-> <<>>],
                       heart_rate_raw |-> [kind |-> "value", list |-> <<>>]]]
        ELSE [kind |-> "day", day |-> fetched.days[1]]

\* ZeppClient.get_heart_rate
get_heart_rate(date, resp) ==
    LET got == get_band_data(date, resp)
    IN  IF IsRaise(got) THEN got
        ELSE [kind |-> "list",
              list |-> IF got.day.heart_rate.kind = "value"
                       THEN got.day.heart_rate.list ELSE <<>>]

\* `not summary`: the summary is None, not there, or an empty object
SummaryFalsy(summary) ==
    \/ summary.kind # "value"
    \/ (summary.obj.slp.kind = "missing" /\ summary.obj.stp.kind = "missing")

\* ZeppClient.get_steps
get_steps(date, resp) ==
    LET got == get_band_data(date, resp)
    IN  IF IsRaise(got) THEN got
        ELSE IF SummaryFalsy(got.day.summary) \/ got.day.summary.obj.stp.kind = "missing"
        THEN EmptyResult
        ELSE LET stp == got.day.summary.obj.stp
             IN  [kind |-> "steps", date |-> date, total_steps |-> stp.ttl,
                  distance_meters |-> stp.dis, calories |-> stp.cal,
                  stages |-> stp.stage]

---------------------------------------------------------------------------
(* client.py: sleep *)

\* SLEEP_STAGES.get(mode, f"unknown_{mode}")
SleepStageName(mode) ==
    CASE mode = 4 -> "light"
      [] mode = 5 -> "deep"
      [] mode = 7 -> "awake"
      [] mode = 8 -> "rem"
      [] OTHER -> "unknown_" \o ToString(mode)

\* mutant: a stage whose mode is not in SLEEP_STAGES is left out
ExpandStages_KnownOnly(raw) ==
    LET known == SelectSeq(raw, LAMBDA stage : stage.mode \in {4, 5, 7, 8})
    IN  [i \in 1..Len(known) |->
            [start_minute |-> known[i].start,
             end_minute |-> known[i].stop,
             duration_minutes |-> known[i].stop - known[i].start,
             stage |-> SleepStageName(known[i].mode)]]

\* the stage loops of get_sleep
ExpandStages(raw) ==
    [i \in 1..Len(raw) |->
        [start_minute |-> raw[i].start,
         end_minute |-> raw[i].stop,
         duration_minutes |-> raw[i].stop - raw[i].start,
         stage |-> SleepStageName(raw[i].mode)]]

\* mutant: the scan does not test st and ed
HasSession_NoTimes(day) ==
    /\ day.summary.kind = "value"
    /\ day.summary.obj.slp.kind # "missing"

\* the two `continue` tests of get_sleep's scan, negated: the day holds a
\* summary with an slp whose st and ed are both set
HasSession(day) ==
    /\ ~SummaryFalsy(day.summary)
    /\ day.summary.obj.slp.kind # "missing"
    /\ day.summary.obj.slp.ed # 0
    /\ day.summary.obj.slp.st # 0

\* mutant: the end date is taken in UTC (utcfromtimestamp)
EndDate_Utc(slp) == slp.ed \div SecondsPerDay

\* datetime.fromtimestamp(slp["ed"]).strftime("%Y-%m-%d")
EndDate(slp) == strftime_date(fromtimestamp(slp.ed))

NoBest == [found |-> FALSE, slp |-> Missing, source |-> 0]
Best(slp, source) == [found |-> TRUE, slp |-> slp, source |-> source]

\* mutant: an exact match is accepted only while nothing is held
AcceptExact_IfNoneHeld(day, best) ==
    IF best.found THEN best ELSE Best(day.summary.obj.slp, day.date)

\* the exact-match branch: accept the day and stop scanning
AcceptExact(day, best) == Best(day.summary.obj.slp, day.date)

\* mutant: the fallback records the session's end date as its source
HoldSameDay_EndDateSource(day, date, best) ==
    IF day.date = date /\ ~best.found
    THEN Best(day.summary.obj.slp, EndDate(day.summary.obj.slp))
    ELSE best

\* the same-day fallback branch: hold the day if nothing is held yet
HoldSameDay(day, date, best) ==
    IF day.date = date /\ ~best.found
    THEN Best(day.summary.obj.slp, day.date)
    ELSE best

\* the scan loop of get_sleep over days[i..], with best_sleep/best_source_date
RECURSIVE ScanDays(_, _, _, _)
ScanDays(days, date, i, best) ==
    IF i > Len(days) THEN best
    ELSE LET day == days[i]
         IN  IF ~HasSession(day) THEN ScanDays(days, date, i + 1, best)
             ELSE IF EndDate(day.summary.obj.slp) = date THEN AcceptExact(day, best)
             ELSE ScanDays(days, date, i + 1, HoldSameDay(day, date, best))

\* mutant: floor division (//) in place of int(... / 60)
DurationMinutes_Floor(start, end) == (end - start) \div SecondsPerMinute

\* int((end - start).total_seconds() / 60) of two naive datetimes
DurationMinutes(start, end) == TruncDiv(end - start, SecondsPerMinute)

\* the result dict get_sleep builds from the accepted session
SleepResult(date, best) ==
    LET slp == best.slp
        start == fromtimestamp(slp.st)
        end == fromtimestamp(slp.ed)
        timed == slp.st # 0 /\ slp.ed # 0
    IN  [kind |-> "sleep",
         date |-> date,
         fetched_from |-> best.source,
         resting_hr |-> slp.rhr,
         sleep_score |-> slp.ss,
         deep_minutes |-> slp.dp,
         light_minutes |-> slp.lt,
         stages |-> ExpandStages(slp.stage),
         nap_stages |-> ExpandStages(slp.odd_stage),
         timed |-> timed,
         start |-> IF timed THEN isoformat(start) ELSE isoformat(0),
         end |-> IF timed THEN isoformat(end) ELSE isoformat(0),
         duration_minutes |-> IF timed THEN DurationMinutes(start, end) ELSE 0]

\* prev_date = date - 1 day: the first day of the window get_sleep fetches
PrevDate(date) == date - 1

\* ZeppClient.get_sleep, given the transport's response to its one request
get_sleep(date, resp) ==
    LET fetched == FetchBandData(resp)
    IN  IF IsRaise(fetched) THEN fetched
        ELSE LET best == ScanDays(fetched.days, date, 1, NoBest)
             IN  IF ~best.found THEN EmptyResult ELSE SleepResult(date, best)

---------------------------------------------------------------------------
(* The vendor API, as the client sees it *)

\* the stored records with from <= day-key <= to, by ascending day-key
RECURSIVE StoredRange(_, _)
StoredRange(from, to) ==
    IF from > to THEN <<>>
    ELSE (IF from \in Days /\ hist[from] # NoRecord THEN <<hist[from]>> ELSE <<>>)
         \o StoredRange(from + 1, to)

Reverse(s) == [i \in 1..Len(s) |-> s[Len(s) + 1 - i]]

\* what a band_data request for from_date..to_date can come back with: the
\* records of the range in either order
BandDataOk(from, to) ==
    { HttpResponse(200, TRUE, 1, days) :
        days \in {StoredRange(from, to), Reverse(StoredRange(from, to))} }

\* ... or a failure: no connection, 401, another status, a body that is not
\* JSON, an API code other than 1
BandDataFailures ==
    { NetworkFailure,
      HttpResponse(401, TRUE, 0, <<>>),
      HttpResponse(500, FALSE, 0, <<>>),
      HttpResponse(200, FALSE, 0, <<>>),
      HttpResponse(200, TRUE, 0, <<>>) }

---------------------------------------------------------------------------
(* export.py *)

\* mutant: a stage without an equivalent is exported as unspecified sleep
AppleSleepValue_Unspecified(stage) ==
    CASE stage = "light" -> "HKCategoryValueSleepAnalysisAsleepCore"
      [] stage = "deep" -> "HKCategoryValueSleepAnalysisAsleepDeep"
      [] stage = "rem" -> "HKCategoryValueSleepAnalysisAsleepREM"
      [] stage = "awake" -> "HKCategoryValueSleepAnalysisAwake"
      [] OTHER -> "HKCategoryValueSleepAnalysisAsleepUnspecified"

\* ZEPP_TO_APPLE_SLEEP.get(stage); "" stands for None
AppleSleepValue(stage) ==
    CASE stage = "light" -> "HKCategoryValueSleepAnalysisAsleepCore"
      [] stage = "deep" -> "HKCategoryValueSleepAnalysisAsleepDeep"
      [] stage = "rem" -> "HKCategoryValueSleepAnalysisAsleepREM"
      [] stage = "awake" -> "HKCategoryValueSleepAnalysisAwake"
      [] OTHER -> ""

\* an aware datetime: the seconds on the wall clock of its zone, and the zone
Aware(local, tz) == [local |-> local, utcoffset |-> tz]

\* _minute_to_datetime: local midnight of date_str plus timedelta(minutes=minute)
MinuteToDatetime(date_str, minute, tz) ==
    Aware(date_str * SecondsPerDay + minute * SecondsPerMinute, tz)

\* datetime.fromisoformat(text).replace(tzinfo=tz)
FromIsoformat(iso, tz) ==
    Aware(iso.day * SecondsPerDay + iso.hour * SecondsPerHour
          + iso.minute * SecondsPerMinute + iso.second, tz)

\* the %z of a whole-hour offset: sign, two digits of hours, "00"
OffsetText(tz) ==
    (IF tz < 0 THEN "-" ELSE "+") \o Pad2(IF tz < 0 THEN -tz ELSE tz) \o "00"

\* _apple_date: "%Y-%m-%d %H:%M:%S %z", field by field
AppleDate(dt) ==
    [day |-> dt.local \div SecondsPerDay,
     hour |-> (dt.local % SecondsPerDay) \div SecondsPerHour,
     minute |-> (dt.local % SecondsPerHour) \div SecondsPerMinute,
     second |-> dt.local % SecondsPerMinute,
     offset |-> OffsetText(dt.utcoffset)]

Record(type, unit, value, startDate, endDate) ==
    [type |-> type, sourceName |-> "zepp-export", unit |-> unit, value |-> value,
     startDate |-> startDate, endDate |-> endDate]

\* SubElement(root, "Record") with its attributes, and the counter's += 1
Emit(acc, record, counter) ==
    [acc EXCEPT !.root = Append(@, record), ![counter] = @ + 1]

\* sorted(d.items()): the keys in ascending order
RECURSIVE SortedKeys(_)
SortedKeys(keys) ==
    IF keys = {} THEN <<>>
    ELSE LET least == CHOOSE k \in keys : \A other \in keys : k <= other
         IN  <<least>> \o SortedKeys(keys \ {least})

\* the heart-rate loop over the readings of one date, from reading i
RECURSIVE HeartRateReadings(_, _, _, _, _)
HeartRateReadings(acc, date_str, readings, i, tz) ==
    IF i > Len(readings) THEN acc
    ELSE LET dt == MinuteToDatetime(date_str, readings[i].minute, tz)
         IN  HeartRateReadings(
                 Emit(acc,
                      Record("HKQuantityTypeIdentifierHeartRate", "count/min",
                             readings[i].bpm, AppleDate(dt), AppleDate(dt)),
                      "hr_count"),
                 date_str, readings, i + 1, tz)

\* the heart-rate loop over the dates, from date j of the sorted keys
RECURSIVE HeartRateDates(_, _, _, _, _)
HeartRateDates(acc, dates, j, data, tz) ==
    IF j > Len(dates) THEN acc
    ELSE HeartRateDates(HeartRateReadings(acc, dates[j], data[dates[j]], 1, tz),
                        dates, j + 1, data, tz)

\* the step-count loop
RECURSIVE StepsDates(_, _, _, _, _)
StepsDates(acc, dates, j, data, tz) ==
    IF j > Len(dates) THEN acc
    ELSE LET steps == data[dates[j]]
         IN  IF steps.kind = "empty" \/ steps.total_steps = 0
             THEN StepsDates(acc, dates, j + 1, data, tz)
             ELSE StepsDates(
                      Emit(acc,
                           Record("HKQuantityTypeIdentifierStepCount", "count",
                                  steps.total_steps,
                                  AppleDate(MinuteToDatetime(dates[j], 0, tz)),
                                  AppleDate(MinuteToDatetime(dates[j], 1439, tz))),
                           "steps_count"),
                      dates, j + 1, data, tz)

\* mutant: the stages are placed on the wake date
SourceDate_WakeDate(sleep, date_str) == date_str

\* sleep.get("fetched_from", date_str)
SourceDate(sleep, date_str) ==
    IF sleep.has_fetched_from THEN sleep.fetched_from ELSE date_str

\* the loop over the stages of one session, from stage i
RECURSIVE SleepStages(_, _, _, _, _)
SleepStages(acc, source_date, stages, i, tz) ==
    IF i > Len(stages) THEN acc
    ELSE LET apple_value == AppleSleepValue(stages[i].stage)
         IN  IF apple_value = ""
             THEN SleepStages(acc, source_date, stages, i + 1, tz)
             ELSE SleepStages(
                      Emit(acc,
                           Record("HKCategoryTypeIdentifierSleepAnalysis", "",
                                  apple_value,
                                  AppleDate(MinuteToDatetime(source_date, stages[i].start_minute, tz)),
                                  AppleDate(MinuteToDatetime(source_date, stages[i].end_minute, tz))),
                           "sleep_count"),
                      source_date, stages, i + 1, tz)

\* `if not sleep or not sleep.get("stages"): continue`
SkipSleep(sleep) == sleep.kind = "empty" \/ sleep.stages = <<>>

\* mutant: the InBed record is written but not counted
InBed_Uncounted(acc, sleep, tz) ==
    IF sleep.timed
    THEN [acc EXCEPT !.root = Append(@,
              Record("HKCategoryTypeIdentifierSleepAnalysis", "",
                     "HKCategoryValueSleepAnalysisInBed",
                     AppleDate(FromIsoformat(sleep.start, tz)),
                     AppleDate(FromIsoformat(sleep.end, tz))))]
    ELSE acc

\* the InBed record of a session that has start and end
InBed(acc, sleep, tz) ==
    IF sleep.timed
    THEN Emit(acc,
              Record("HKCategoryTypeIdentifierSleepAnalysis", "",
                     "HKCategoryValueSleepAnalysisInBed",
                     AppleDate(FromIsoformat(sleep.start, tz)),
                     AppleDate(FromIsoformat(sleep.end, tz))),
              "sleep_count")
    ELSE acc

\* the sleep loop over the dates
RECURSIVE SleepDates(_, _, _, _, _)
SleepDates(acc, dates, j, data, tz) ==
    IF j > Len(dates) THEN acc
    ELSE LET sleep == data[dates[j]]
         IN  IF SkipSleep(sleep) THEN SleepDates(acc, dates, j + 1, data, tz)
             ELSE SleepDates(
                      InBed(SleepStages(acc, SourceDate(sleep, dates[j]), sleep.stages, 1, tz),
                            sleep, tz),
                      dates, j + 1, data, tz)

\* export_apple_health: the Record elements written to the file, in order, and
\* the counts returned; a dict argument that is None or {} has no keys
export_apple_health(hr, steps, sleep, tz) ==
    LET start == [root |-> <<>>, hr_count |-> 0, steps_count |-> 0, sleep_count |-> 0]
        withHr == HeartRateDates(start, SortedKeys(DOMAIN hr), 1, hr, tz)
        withSteps == StepsDates(withHr, SortedKeys(DOMAIN steps), 1, steps, tz)
        withSleep == SleepDates(withSteps, SortedKeys(DOMAIN sleep), 1, sleep, tz)
    IN  [kind |-> "written",
         file |-> withSleep.root,
         hr_count |-> withSleep.hr_count,
         steps_count |-> withSleep.steps_count,
         sleep_count |-> withSleep.sleep_count]

---------------------------------------------------------------------------
(* The arguments export_apple_health is given *)

ExportDates == 1..2

NoData == [d \in {} |-> EmptyResult]
OnDate(d, v) == [x \in {d} |-> v]
OnDates(v, w) == [x \in ExportDates |-> IF x = 1 THEN v ELSE w]

Reading(minute, bpm) ==
    [minute |-> minute,
     time |-> Pad2(minute \div 60) \o ":" \o Pad2(minute % 60),
     bpm |-> bpm]

HeartRateInputs ==
    { NoData,
      OnDate(1, <<Reading(400, 68)>>),
      OnDate(2, <<>>),
      OnDates(<<Reading(0, 61), Reading(1439, 72)>>, <<Reading(3, 90)>>) }

StepsDict(total) == [kind |-> "steps", total_steps |-> total]

StepsInputs ==
    { NoData,
      OnDate(1, EmptyResult),
      OnDate(2, StepsDict(6548)),
      OnDates(StepsDict(5000), StepsDict(0)) }

StageNames == {"light", "deep", "rem", "awake", "unknown_9"}

\* the i-th stage of a session spans 30 minutes from minute 1410 + 30 (i - 1)
StageDict(i, name) ==
    [start_minute |-> 1380 + 30 * i, end_minute |-> 1410 + 30 * i,
     duration_minutes |-> 30, stage |-> name]

StageLists(n) ==
    UNION { { [i \in 1..k |-> StageDict(i, names[i])] : names \in [1..k -> StageNames] }
            : k \in 0..n }

\* a sleep dict for wake date d: a night from 23:30 of d-1 to 07:15 of d
SleepDict(d, has_fetched_from, fetched_from, timed, stages) ==
    [kind |-> "sleep", date |-> d,
     has_fetched_from |-> has_fetched_from, fetched_from |-> fetched_from,
     timed |-> timed,
     start |-> [day |-> d - 1, hour |-> 23, minute |-> 30, second |-> 0],
     end |-> [day |-> d, hour |-> 7, minute |-> 15, second |-> 0],
     stages |-> stages]

SleepDicts(d, n) ==
    { SleepDict(d, f[1], f[2], timed, stages) :
        f \in {<<FALSE, d>>, <<TRUE, d>>, <<TRUE, d - 1>>},
        timed \in BOOLEAN,
        stages \in StageLists(n) }

SleepInputs ==
    {NoData}
    \cup UNION { { OnDate(d, v) : v \in {EmptyResult} \cup SleepDicts(d, MaxStages) }
                 : d \in ExportDates }
    \cup { OnDates(v, w) : v \in SleepDicts(1, 1), w \in {EmptyResult} \cup SleepDicts(2, 1) }

TzOffsets == {-6, 0, 9}

NotExported == [kind |-> "none"]

---------------------------------------------------------------------------
(* server.py: the cache directory *)

\* the data types the server keeps files for: CACHE_DIR / data_type / key.json
PerDateTypes == {"heart-rate", "sleep", "steps", "stress", "phn"}
DataTypes == PerDateTypes \cup {"training-load", "sport-load", "summary"}

\* the days a request can name and the clock can show
ServerDates == 1..LastDay

Absent == [kind |-> "absent"]

\* no file has been written
NoFiles == [f \in DataTypes \X ServerDates |-> Absent]

---------------------------------------------------------------------------
(* The state machine *)

Idle == [kind |-> "idle"]

\* no command has been given to the CLI
NoCommand == [kind |-> "none"]

Init ==
    /\ zone \in LocalZones
    /\ hist = [k \in Days |-> NoRecord]
    /\ call = Idle
    /\ result = Idle
    /\ heart_rate_data = NoData
    /\ steps_data = NoData
    /\ sleep_data = NoData
    /\ tz_offset_hours = 0
    /\ exported = NotExported
    /\ cache = NoFiles
    /\ today = 1
    /\ served = 0
    /\ cli = NoCommand
    /\ disk = {}
    /\ threads = <<>>
    /\ upstream = <<>>

Stored == {k \in Days : hist[k] # NoRecord}

\* the band syncs a day record to the vendor cloud
VendorSync ==
    /\ call = Idle
    /\ Cardinality(Stored) < MaxStored
    /\ \E k \in Days \ Stored : \E rec \in RawDays(k) :
          hist' = [hist EXCEPT ![k] = rec]
    /\ UNCHANGED <<cliVars, raceVars, zone, call, result, exportVars, serverVars>>

\* the one request _fetch_band_data(from_date, to_date) makes
BandDataRequest(from_date, to_date) ==
    [path |-> "/v1/data/band_data.json", from_date |-> from_date, to_date |-> to_date]

\* mutant: get_sleep fetches the two days of its window one by one
SleepRequests_PerDay(date) ==
    <<BandDataRequest(PrevDate(date), PrevDate(date)), BandDataRequest(date, date)>>

\* the requests get_sleep(date) makes: _fetch_band_data(prev_date, date)
SleepRequests(date) == <<BandDataRequest(PrevDate(date), date)>>

\* the requests get_band_data(date) makes, and get_heart_rate and get_steps
\* through it: _fetch_band_data(date, date)
DayRequests(date) == <<BandDataRequest(date, date)>>

Call(method, date, resp) ==
    [kind |-> "call", method |-> method, date |-> date, resp |-> resp,
     requests |-> IF method = "get_sleep" THEN SleepRequests(date) ELSE DayRequests(date)]

\* client.get_sleep(date), the fetch succeeding or failing
GetSleep ==
    /\ call = Idle
    /\ \E date \in Days :
       \E resp \in BandDataOk(PrevDate(date), date) \cup BandDataFailures :
          /\ call' = Call("get_sleep", date, resp)
          /\ result' = get_sleep(date, resp)
    /\ UNCHANGED <<cliVars, raceVars, zone, hist, exportVars, serverVars>>

Next == VendorSync \/ GetSleep

Spec == Init /\ [][Next]_vars

\* client.get_heart_rate(date)
GetHeartRate ==
    /\ call = Idle
    /\ \E date \in Days :
       \E resp \in BandDataOk(date, date) \cup BandDataFailures :
          /\ call' = Call("get_heart_rate", date, resp)
          /\ result' = get_heart_rate(date, resp)
    /\ UNCHANGED <<cliVars, raceVars, zone, hist, exportVars, serverVars>>

\* client.get_steps(date)
GetSteps ==
    /\ call = Idle
    /\ \E date \in Days :
       \E resp \in BandDataOk(date, date) \cup BandDataFailures :
          /\ call' = Call("get_steps", date, resp)
          /\ result' = get_steps(date, resp)
    /\ UNCHANGED <<cliVars, raceVars, zone, hist, exportVars, serverVars>>

NextClient == VendorSync \/ GetSleep \/ GetHeartRate \/ GetSteps

\* the three single-date methods of the client over the vendor history
SpecClient == Init /\ [][NextClient]_vars

\* the exporter is about to be called with some arguments
InitExport ==
    /\ zone = [std |-> 0, dst |-> FALSE, dstFrom |-> 0]
    /\ hist = [k \in Days |-> NoRecord]
    /\ call = Idle
    /\ result = Idle
    /\ heart_rate_data \in HeartRateInputs
    /\ steps_data \in StepsInputs
    /\ sleep_data \in SleepInputs
    /\ tz_offset_hours \in TzOffsets
    /\ exported = NotExported
    /\ cache = NoFiles
    /\ today = 1
    /\ served = 0
    /\ cli = NoCommand
    /\ disk = {}
    /\ threads = <<>>
    /\ upstream = <<>>

\* export_apple_health(heart_rate_data, steps_data, sleep_data, tz_offset_hours)
ExportAppleHealth ==
    /\ exported = NotExported
    /\ exported' = export_apple_health(heart_rate_data, steps_data, sleep_data,
                                       tz_offset_hours)
    /\ UNCHANGED <<cliVars, raceVars, clientVars, heart_rate_data, steps_data, sleep_data, tz_offset_hours, serverVars>>

NextExport == ExportAppleHealth

SpecExport == InitExport /\ [][NextExport]_vars

---------------------------------------------------------------------------
(* What the claims speak of, stated over the vendor's raw data *)

\* the last call was `method` and its fetch succeeded (status 200, JSON, code 1)
Fetched(method) ==
    /\ call # Idle
    /\ call.method = method
    /\ call.resp.net_ok /\ call.resp.status_code = 200
    /\ call.resp.json_ok /\ call.resp.code = 1

\* the raw record decodes to a summary whose slp has non-zero st and ed
RawHoldsSession(rec) ==
    /\ rec.summary.kind = "str"
    /\ rec.summary.b64ok /\ rec.summary.jsonok
    /\ rec.summary.obj.slp.kind = "obj"
    /\ rec.summary.obj.slp.st # 0
    /\ rec.summary.obj.slp.ed # 0

RawSession(rec) == rec.summary.obj.slp

\* the local wall-clock second and calendar day of an epoch
WallClock(epoch) ==
    epoch + (IF zone.dst /\ epoch >= zone.dstFrom THEN zone.std + 3600 ELSE zone.std)
WallDay(epoch) == WallClock(epoch) \div 86400

\* position i of the response holds a session whose end falls on the wake date
EndsOnWakeDate(i) ==
    /\ RawHoldsSession(call.resp.data[i])
    /\ WallDay(RawSession(call.resp.data[i]).ed) = call.date

\* position i holds a session stored under the wake date that ends elsewhere
SameDayOnly(i) ==
    /\ RawHoldsSession(call.resp.data[i])
    /\ call.resp.data[i].date_time = call.date
    /\ WallDay(RawSession(call.resp.data[i]).ed) # call.date

Positions == 1..Len(call.resp.data)

\* the result shows the session of position i, stored under its day-key
Returns(i) ==
    /\ result.kind = "sleep"
    /\ result.fetched_from = call.resp.data[i].date_time
    /\ result.sleep_score = RawSession(call.resp.data[i]).ss
    /\ result.resting_hr = RawSession(call.resp.data[i]).rhr
    /\ result.start.day = WallDay(RawSession(call.resp.data[i]).st)
    /\ result.end.day = WallDay(RawSession(call.resp.data[i]).ed)
    /\ result.end.second = WallClock(RawSession(call.resp.data[i]).ed) % 60
    /\ Len(result.stages) = Len(RawSession(call.resp.data[i]).stage)

---------------------------------------------------------------------------
(* Claims *)

\* C1: if the band data fetched for [D-1, D] holds a session (non-zero st and
\* ed) whose end epoch falls on local date D, get_sleep(D) returns such a
\* session with fetched_from = the day-key it is stored under, be that D or
\* D-1: the one session when there is one, the first scanned when both days
\* hold one.
C1_SleepReconciliation ==
    Fetched("get_sleep") =>
        \A i \in Positions :
            EndsOnWakeDate(i) =>
                /\ \E j \in Positions : EndsOnWakeDate(j) /\ Returns(j)
                /\ (\A j \in Positions : j < i => ~EndsOnWakeDate(j)) => Returns(i)

\* C1 witness: a session stored under D-1 that ends on D is returned from D-1
C1_Witness ==
    /\ Fetched("get_sleep")
    /\ \E i \in Positions :
          /\ EndsOnWakeDate(i)
          /\ call.resp.data[i].date_time = call.date - 1
          /\ Returns(i)

\* C2: an exact end-date match wins over the same-day fallback, in every scan
\* order: if any scanned day holds a session ending on D the result ends on D,
\* and a session stored under D that ends on another date is returned only
\* when no scanned day holds a session ending on D.
C2_ExactBeatsFallback ==
    Fetched("get_sleep") =>
        /\ (\E i \in Positions : EndsOnWakeDate(i)) =>
              (result.kind = "sleep" /\ result.end.day = call.date)
        /\ (result.kind = "sleep" /\ result.end.day # call.date) =>
              /\ result.fetched_from = call.date
              /\ \A i \in Positions : ~EndsOnWakeDate(i)

\* C2 witness: day D is scanned first and held as the fallback, then day D-1
\* ends on D and replaces it
C2_Witness ==
    /\ Fetched("get_sleep")
    /\ Len(call.resp.data) = 2
    /\ SameDayOnly(1)
    /\ EndsOnWakeDate(2)
    /\ Returns(2)

\* C3: every non-empty result of get_sleep(D) has fetched_from in {D, D-1}
C3_FetchedFromInWindow ==
    (call # Idle /\ call.method = "get_sleep" /\ result.kind = "sleep") =>
        result.fetched_from \in {call.date, call.date - 1}

\* C3 witness: the same-day fallback returns a session from day D that ends
\* on the day after
C3_Witness ==
    /\ Fetched("get_sleep")
    /\ result.kind = "sleep"
    /\ result.fetched_from = call.date
    /\ result.end.day = call.date + 1

\* C4 as claimed: duration_minutes is the wall-clock length in seconds over 60
\* rounded to the nearest minute (round() of Python: halves to even)
C4_RoundedDuration ==
    (Fetched("get_sleep") /\ result.kind = "sleep") =>
        \A i \in Positions :
            Returns(i) =>
                LET secs == WallClock(RawSession(call.resp.data[i]).ed)
                            - WallClock(RawSession(call.resp.data[i]).st)
                    q == secs \div 60
                    r == secs % 60
                IN  result.duration_minutes =
                        IF r > 30 \/ (r = 30 /\ q % 2 = 1) THEN q + 1 ELSE q

\* C4 amended: duration_minutes is the wall-clock length in seconds over 60
\* with the fraction dropped (truncated toward zero), not rounded
C4_TruncatedDuration ==
    (Fetched("get_sleep") /\ result.kind = "sleep") =>
        \A i \in Positions :
            Returns(i) =>
                LET secs == WallClock(RawSession(call.resp.data[i]).ed)
                            - WallClock(RawSession(call.resp.data[i]).st)
                IN  /\ result.timed
                    /\ secs >= 0 => /\ 60 * result.duration_minutes <= secs
                                    /\ secs < 60 * (result.duration_minutes + 1)
                    /\ secs < 0 => /\ 60 * result.duration_minutes >= secs
                                   /\ secs > 60 * (result.duration_minutes - 1)

\* C4 witness: a session of 8 h 1 min 40 s is reported as 481 minutes
C4_Witness ==
    /\ Fetched("get_sleep")
    /\ result.kind = "sleep"
    /\ result.duration_minutes = 481
    /\ \E i \in Positions :
          /\ Returns(i)
          /\ RawSession(call.resp.data[i]).ed - RawSession(call.resp.data[i]).st = 28900

\* C5: when the fetch succeeds and no fetched day qualifies (no days, no
\* summary, no slp, st/ed missing, or a session that neither ends on D nor is
\* stored under D), get_sleep(D) returns the empty dict and raises nothing
C5_NoSessionIsEmpty ==
    (/\ Fetched("get_sleep")
     /\ \A i \in Positions : ~EndsOnWakeDate(i) /\ ~SameDayOnly(i))
        => result = EmptyResult

\* C5 witness: day D-1 holds a session that ended on D-1 and day D holds a
\* record without a session; the result is empty
C5_Witness ==
    /\ Fetched("get_sleep")
    /\ Len(call.resp.data) = 2
    /\ \E i \in Positions :
          /\ RawHoldsSession(call.resp.data[i])
          /\ call.resp.data[i].date_time = call.date - 1
    /\ \A i \in Positions : ~EndsOnWakeDate(i) /\ ~SameDayOnly(i)
    /\ result = EmptyResult

\* the summary blob of position i cannot be decoded
SummaryUndecodable(i) ==
    /\ call.resp.data[i].summary.kind = "str"
    /\ ~(call.resp.data[i].summary.b64ok /\ call.resp.data[i].summary.jsonok)

\* the response without position i
Without(i) ==
    [call.resp EXCEPT !.data =
        SubSeq(call.resp.data, 1, i - 1) \o SubSeq(call.resp.data, i + 1, Len(call.resp.data))]

HeartRateUndecodable(i) ==
    /\ call.resp.data[i].data_hr.kind = "str"
    /\ ~call.resp.data[i].data_hr.b64ok

\* the call returned the empty dict or the empty list
ReturnedEmpty ==
    result = EmptyResult \/ (result.kind = "list" /\ result.list = <<>>)

\* C7 as claimed: get_sleep, get_heart_rate and get_steps return an empty
\* dict/list only when the fetch succeeded and the payload they read decoded;
\* a fetch failure or a decode failure never gives the result of "no data"
C7_AbsentNeverFailure ==
    (call # Idle /\ ReturnedEmpty) =>
        /\ Fetched(call.method)
        /\ \A i \in Positions :
              IF call.method = "get_heart_rate"
              THEN ~HeartRateUndecodable(i)
              ELSE ~SummaryUndecodable(i)

---------------------------------------------------------------------------
(* What the export claims speak of *)

Written == exported # NotExported

IsSleepRecord(r) == r.type = "HKCategoryTypeIdentifierSleepAnalysis"
IsInBedRecord(r) == IsSleepRecord(r) /\ r.value = "HKCategoryValueSleepAnalysisInBed"
IsStageRecord(r) == IsSleepRecord(r) /\ r.value # "HKCategoryValueSleepAnalysisInBed"
IsHeartRateRecord(r) == r.type = "HKQuantityTypeIdentifierHeartRate"

SleepRecords == SelectSeq(exported.file, IsSleepRecord)
InBedRecords == SelectSeq(exported.file, IsInBedRecord)
StageRecords == SelectSeq(exported.file, IsStageRecord)
HeartRateRecords == SelectSeq(exported.file, IsHeartRateRecord)

\* the dates of sleep_data that hold a session (a non-empty dict)
Sessions == {d \in DOMAIN sleep_data : sleep_data[d].kind = "sleep"}

\* the stages of a session that have an equivalent in the external vocabulary
Vocabulary ==
    [light |-> "HKCategoryValueSleepAnalysisAsleepCore",
     deep |-> "HKCategoryValueSleepAnalysisAsleepDeep",
     rem |-> "HKCategoryValueSleepAnalysisAsleepREM",
     awake |-> "HKCategoryValueSleepAnalysisAwake"]

InVocabulary(stage) == stage.stage \in DOMAIN Vocabulary

MappedStages(d) ==
    IF d \in Sessions THEN SelectSeq(sleep_data[d].stages, InVocabulary) ELSE <<>>

\* the sleep records the claim C8 gives the sessions of the dates d, d+1, ...:
\* N + 1 for a session with start and end, N for one without
RECURSIVE ClaimedSleepRecords(_)
ClaimedSleepRecords(d) ==
    IF d \notin ExportDates THEN 0
    ELSE Len(MappedStages(d))
         + (IF d \in Sessions /\ sleep_data[d].timed THEN 1 ELSE 0)
         + ClaimedSleepRecords(d + 1)

\* the mapped stages of all sessions in date order, each with the date its
\* session was fetched from
RECURSIVE MappedFrom(_)
MappedFrom(d) ==
    IF d \notin ExportDates THEN <<>>
    ELSE [i \in 1..Len(MappedStages(d)) |->
             [source |-> IF sleep_data[d].has_fetched_from
                         THEN sleep_data[d].fetched_from ELSE d,
              wake |-> d,
              stage |-> MappedStages(d)[i]]]
         \o MappedFrom(d + 1)

\* the heart-rate readings of all dates in date order, each with its date
RECURSIVE ReadingsOfDates(_)
ReadingsOfDates(d) ==
    IF d \notin ExportDates THEN <<>>
    ELSE (IF d \in DOMAIN heart_rate_data
          THEN [i \in 1..Len(heart_rate_data[d]) |->
                   [date |-> d, minute |-> heart_rate_data[d][i].minute]]
          ELSE <<>>)
         \o ReadingsOfDates(d + 1)

\* the UTC offset suffix of the configured offsets
Suffix == [h \in TzOffsets |-> CASE h = -6 -> "-0600" [] h = 0 -> "+0000" [] h = 9 -> "+0900"]

\* local midnight of `date` plus `minute` minutes, with the configured offset
Stamp(date, minute) ==
    [day |-> date + (minute \div 1440),
     hour |-> (minute % 1440) \div 60,
     minute |-> minute % 60,
     second |-> 0,
     offset |-> Suffix[tz_offset_hours]]

---------------------------------------------------------------------------
(* Claims: export *)

\* C8 as claimed: the export emits exactly one InBed record for every sleep
\* session that has start and end, whatever its stages, so a session with N
\* mapped stages yields N + 1 sleep records and sleep_count grows by N + 1,
\* for every N >= 0
C8_OneInBedPerSession ==
    Written =>
        /\ Len(InBedRecords) = Cardinality({d \in Sessions : sleep_data[d].timed})
        /\ Len(SleepRecords) = ClaimedSleepRecords(1)
        /\ exported.sleep_count = ClaimedSleepRecords(1)

\* C9: every stage named light, deep, rem or awake yields exactly one sleep
\* record with the value AsleepCore, AsleepDeep, AsleepREM or Awake, in order;
\* a stage of any other name yields no record and is not counted; and the
\* export leaves sleep_data as it was
C9_StageMapping ==
    /\ [](Written =>
            /\ Len(StageRecords) = Len(MappedFrom(1))
            /\ \A i \in 1..Len(StageRecords) :
                  StageRecords[i].value = Vocabulary[MappedFrom(1)[i].stage.stage]
            /\ exported.sleep_count = Len(StageRecords) + Len(InBedRecords))
    /\ [][sleep_data' = sleep_data]_vars

\* C9 witness: a session with a rem stage and an unknown_9 stage has been
\* exported with the one stage record
C9_Witness ==
    /\ Written
    /\ \E d \in Sessions :
          /\ Len(sleep_data[d].stages) = 2
          /\ sleep_data[d].stages[1].stage = "unknown_9"
          /\ sleep_data[d].stages[2].stage = "rem"
          /\ DOMAIN sleep_data = {d}
    /\ Len(StageRecords) = 1
    /\ StageRecords[1].value = "HKCategoryValueSleepAnalysisAsleepREM"

\* C10: each exported heart-rate and stage timestamp is local midnight of the
\* record's source date plus its minute value, with the configured UTC
\* offset; the source date of a stage is the session's fetched_from date, so a
\* minute of 1440 or more falls on the day after it at time (minute - 1440)
C10_Timestamps ==
    Written =>
        /\ Len(HeartRateRecords) = Len(ReadingsOfDates(1))
        /\ \A i \in 1..Len(HeartRateRecords) :
              LET r == ReadingsOfDates(1)[i]
              IN  /\ HeartRateRecords[i].startDate = Stamp(r.date, r.minute)
                  /\ HeartRateRecords[i].endDate = Stamp(r.date, r.minute)
        /\ Len(StageRecords) = Len(MappedFrom(1))
        /\ \A i \in 1..Len(StageRecords) :
              LET m == MappedFrom(1)[i]
                  rec == StageRecords[i]
              IN  /\ rec.startDate = Stamp(m.source, m.stage.start_minute)
                  /\ rec.endDate = Stamp(m.source, m.stage.end_minute)
                  /\ m.stage.start_minute >= 1440 =>
                        /\ rec.startDate.day = m.source + 1
                        /\ 60 * rec.startDate.hour + rec.startDate.minute
                              = m.stage.start_minute - 1440

\* C10 witness: a stage from minute 1440 to 1470 of a session fetched from
\* the day before the wake date is exported at 00:00-00:30 of the wake date,
\* with the offset -0600
C10_Witness ==
    /\ Written
    /\ tz_offset_hours = -6
    /\ \E i \in 1..Len(StageRecords) :
          /\ i <= Len(MappedFrom(1))
          /\ MappedFrom(1)[i].stage.start_minute = 1440
          /\ MappedFrom(1)[i].source = MappedFrom(1)[i].wake - 1
          /\ StageRecords[i].startDate =
                [day |-> MappedFrom(1)[i].wake, hour |-> 0, minute |-> 0,
                 second |-> 0, offset |-> "-0600"]
          /\ StageRecords[i].endDate.minute = 30

---------------------------------------------------------------------------
(* decoders.py on text: base64, character by character *)

\* A str is its sequence of code points, a bytes object its sequence of bytes;
\* the argument of a decoder is a str, a bytes object, None or a number.
Str(codes) == [kind |-> "str", val |-> codes]
Bytes(octets) == [kind |-> "bytes", val |-> octets]
NoneArg == [kind |-> "none", val |-> <<>>]
IntArg(n) == [kind |-> "int", val |-> <<n>>]

\* an exception of the given class leaves the function
Raised(error) == [ok |-> FALSE, error |-> error]

\* "ABC...XYZabc...xyz0123456789+/": the code point of the n-th digit, n in 0..63
B64Char(n) ==
    IF n < 26 THEN 65 + n
    ELSE IF n < 52 THEN 71 + n
    ELSE IF n < 62 THEN n - 4
    ELSE IF n = 62 THEN 43
    ELSE 47

\* binascii's table_a2b_base64: the value of a digit, 64 for any other character
B64Value(c) ==
    IF 65 <= c /\ c <= 90 THEN c - 65
    ELSE IF 97 <= c /\ c <= 122 THEN c - 71
    ELSE IF 48 <= c /\ c <= 57 THEN c + 4
    ELSE IF c = 43 THEN 62
    ELSE IF c = 47 THEN 63
    ELSE 64

\* "=": the pad character
IsPad(c) == c = 61

\* F of the values of its arguments: each argument is computed once, before F
\* is applied, as a Python call computes its arguments
Strict1(F(_), a) == CHOOSE r \in { F(x) : x \in {a} } : TRUE
Strict2(F(_, _), a, b) == CHOOSE r \in { F(x, y) : x \in {a}, y \in {b} } : TRUE
Strict3(F(_, _, _), a, b, c) ==
    CHOOSE r \in { F(x, y, z) : x \in {a}, y \in {b}, z \in {c} } : TRUE

\* the least index from i on at which Stop holds, Len(s) + 1 if there is none
FirstFrom(s, i, Stop(_)) ==
    Strict2(LAMBDA t, from :
                (CHOOSE j \in from..(Len(t) + 1) :
                    /\ j = Len(t) + 1 \/ Stop(t[j])
                    /\ \A k \in from..(j - 1) : ~Stop(t[k])),
            s, i)

\* the four digits and pads of each group of three bytes of b: the last group
\* is filled with zero bits and padded with "="
EncodeQuads(b) ==
    LET at(k) == IF k <= Len(b) THEN b[k] ELSE 0
        sextet(g, r) ==
            CASE r = 0 -> at(3 * g + 1) \div 4
              [] r = 1 -> (at(3 * g + 1) % 4) * 16 + at(3 * g + 2) \div 16
              [] r = 2 -> (at(3 * g + 2) % 16) * 4 + at(3 * g + 3) \div 64
              [] OTHER -> at(3 * g + 3) % 64
    IN  [k \in 1..(4 * ((Len(b) + 2) \div 3)) |->
            IF 3 * ((k - 1) \div 4) + ((k - 1) % 4) > Len(b) THEN 61
            ELSE B64Char(sextet((k - 1) \div 4, (k - 1) % 4))]

\* base64.b64encode(b)
b64encode(b) == Strict1(EncodeQuads, b)

\* the bytes of the digits before index stop of d, four digits giving three
\* bytes; digits left in an incomplete group when the input ends are an error
DecodeQuads(d, stop) ==
    Strict1(LAMBDA digits :
                LET v(k) == B64Value(digits[k])
                    octet(g, r) ==
                        CASE r = 0 -> v(4 * g + 1) * 4 + v(4 * g + 2) \div 16
                          [] r = 1 -> (v(4 * g + 2) % 16) * 16 + v(4 * g + 3) \div 4
                          [] OTHER -> (v(4 * g + 3) % 4) * 64 + v(4 * g + 4)
                    rest == Len(digits) % 4
                IN  IF stop > Len(d) /\ rest # 0 THEN Raised("binascii.Error")
                    ELSE Decoded([j \in 1..(3 * (Len(digits) \div 4)
                                            + (IF rest >= 2 THEN rest - 1 ELSE 0)) |->
                                     octet((j - 1) \div 3, (j - 1) % 3)]),
            SelectSeq(SubSeq(d, 1, stop - 1), LAMBDA c : ~IsPad(c)))

\* the loop of binascii.a2b_base64 over the digits and pads d: it counts the
\* digits in groups of four (quad_pos) and the pads since the last digit
\* (pads), and stops at the pad that completes a group (quad_pos >= 2 and
\* quad_pos + pads >= 4)
ScanQuads(d) ==
    LET lastDigit(k) == IF \E j \in 1..k : ~IsPad(d[j])
                        THEN CHOOSE j \in 1..k : ~IsPad(d[j]) /\ \A m \in (j + 1)..k : IsPad(d[m])
                        ELSE 0
        quad_pos(k) == Cardinality({j \in 1..k : ~IsPad(d[j])}) % 4
        pads(k) == k - lastDigit(k)
        done(k) == IsPad(d[k]) /\ quad_pos(k) >= 2 /\ quad_pos(k) + pads(k) >= 4
    IN  Strict2(DecodeQuads, d, FirstFrom([k \in 1..Len(d) |-> k], 1, done))

\* binascii.a2b_base64 without strict_mode: every character that is neither a
\* digit nor a pad is skipped
a2b_base64(s) == Strict1(ScanQuads, SelectSeq(s, LAMBDA c : IsPad(c) \/ B64Value(c) < 64))

\* base64.b64decode(s): a str must be ASCII (ValueError if not), anything that
\* is neither str nor bytes-like is a TypeError
b64decode(arg) ==
    Strict1(LAMBDA a :
                IF a.kind \notin {"str", "bytes"} THEN Raised("TypeError")
                ELSE IF a.kind = "str" /\ \E i \in 1..Len(a.val) : a.val[i] > 127
                THEN Raised("ValueError")
                ELSE a2b_base64(a.val),
            arg)

---------------------------------------------------------------------------
(* JSON text, character by character *)

\* a JSON value: None, a bool, an int, a float (kept as its literal), a str,
\* a list, or a dict as its key/value pairs in insertion order
JNull == [kind |-> "null", val |-> <<>>]
JBool(b) == [kind |-> "bool", val |-> <<b>>]
JInt(n) == [kind |-> "int", val |-> <<n>>]
JFloat(literal) == [kind |-> "float", val |-> literal]
JStr(codes) == [kind |-> "str", val |-> codes]
JList(items) == [kind |-> "list", val |-> items]
JDict(pairs) == [kind |-> "dict", val |-> pairs]

\* str(n) of a natural number
RECURSIVE Digits(_)
Digits(n) == IF n < 10 THEN <<48 + n>> ELSE Append(Digits(n \div 10), 48 + (n % 10))

\* int.__repr__
IntText(n) == IF n < 0 THEN <<45>> \o Digits(-n) ELSE Digits(n)

\* one lower-case hexadecimal digit
HexChar(n) == IF n < 10 THEN 48 + n ELSE 87 + n

\* '\\u{0:04x}'.format(n)
UnicodeEscape(n) ==
    <<92, 117, HexChar(n \div 4096), HexChar((n \div 256) % 16),
      HexChar((n \div 16) % 16), HexChar(n % 16)>>

\* json.encoder's ESCAPE_ASCII replacement of one character (ensure_ascii)
EscapeChar(c) ==
    CASE c = 34 -> <<92, 34>>
      [] c = 92 -> <<92, 92>>
      [] c = 10 -> <<92, 110>>
      [] c = 13 -> <<92, 114>>
      [] c = 9 -> <<92, 116>>
      [] c = 12 -> <<92, 102>>
      [] c = 8 -> <<92, 98>>
      [] c >= 32 /\ c <= 126 -> <<c>>
      [] c < 65536 -> UnicodeEscape(c)
      [] OTHER -> UnicodeEscape(55296 + ((c - 65536) \div 1024))
                  \o UnicodeEscape(56320 + ((c - 65536) % 1024))

RECURSIVE EscapeFrom(_, _)
EscapeFrom(codes, i) ==
    IF i > Len(codes) THEN <<>> ELSE EscapeChar(codes[i]) \o EscapeFrom(codes, i + 1)

\* py_encode_basestring_ascii
EncodeString(codes) == <<34>> \o EscapeFrom(codes, 1) \o <<34>>

\* json.dumps(x) with the default separators ', ' and ': '
RECURSIVE json_dumps(_)
RECURSIVE DumpItems(_, _)
RECURSIVE DumpPairs(_, _)
DumpItems(items, i) ==
    IF i > Len(items) THEN <<>>
    ELSE (IF i > 1 THEN <<44, 32>> ELSE <<>>)
         \o json_dumps(items[i]) \o DumpItems(items, i + 1)

DumpPairs(pairs, i) ==
    IF i > Len(pairs) THEN <<>>
    ELSE (IF i > 1 THEN <<44, 32>> ELSE <<>>)
         \o EncodeString(pairs[i][1]) \o <<58, 32>> \o json_dumps(pairs[i][2])
         \o DumpPairs(pairs, i + 1)

json_dumps(x) ==
    CASE x.kind = "null" -> <<110, 117, 108, 108>>
      [] x.kind = "bool" -> IF x.val[1] THEN <<116, 114, 117, 101>>
                            ELSE <<102, 97, 108, 115, 101>>
      [] x.kind = "int" -> IntText(x.val[1])
      [] x.kind = "float" -> x.val
      [] x.kind = "str" -> EncodeString(x.val)
      [] x.kind = "list" -> <<91>> \o DumpItems(x.val, 1) \o <<93>>
      [] OTHER -> <<123>> \o DumpPairs(x.val, 1) \o <<125>>

\* the result of scanning one construct: its value and the index after it
Parsed(v, end) == [ok |-> TRUE, value |-> v, end |-> end]
ParseFail == [ok |-> FALSE, value |-> JNull, end |-> 0]

\* json.decoder.WHITESPACE: ' \t\n\r'
IsWhitespace(c) == c \in {32, 9, 10, 13}

\* WHITESPACE.match(s, i).end(): the index after the whitespace that starts at i
SkipWhitespace(s, i) == FirstFrom(s, i, LAMBDA c : ~IsWhitespace(c))

\* s[i:i + len(literal)] == literal
StartsWith(s, i, literal) ==
    /\ i + Len(literal) - 1 <= Len(s)
    /\ SubSeq(s, i, i + Len(literal) - 1) = literal

IsDigit(c) == 48 <= c /\ c <= 57

\* the value of a hexadecimal digit, -1 for any other character
HexValue(c) ==
    IF IsDigit(c) THEN c - 48
    ELSE IF 97 <= c /\ c <= 102 THEN c - 87
    ELSE IF 65 <= c /\ c <= 70 THEN c - 55
    ELSE -1

\* the four hexadecimal digits s[i..i+3] of a \uXXXX escape, -1 if they are not
DecodeUXXXX(s, i) ==
    IF i + 3 > Len(s) THEN -1
    ELSE IF \E k \in 0..3 : HexValue(s[i + k]) < 0 THEN -1
    ELSE HexValue(s[i]) * 4096 + HexValue(s[i + 1]) * 256
         + HexValue(s[i + 2]) * 16 + HexValue(s[i + 3])

\* json.decoder.BACKSLASH: the character a one-letter escape stands for
Unescaped(c) ==
    CASE c = 34 -> 34
      [] c = 92 -> 92
      [] c = 47 -> 47
      [] c = 98 -> 8
      [] c = 102 -> 12
      [] c = 110 -> 10
      [] c = 114 -> 13
      [] c = 116 -> 9
      [] OTHER -> -1

\* what a backslash at index j of a string stands for: the character and the
\* index after the escape (a \uXXXX escape of a high surrogate takes a
\* following \uXXXX low surrogate with it)
ScanEscape(s, j) ==
    LET uni == DecodeUXXXX(s, j + 2)
        uni2 == DecodeUXXXX(s, j + 8)
        paired == /\ 55296 <= uni /\ uni <= 56319
                  /\ StartsWith(s, j + 6, <<92, 117>>)
                  /\ j + 12 <= Len(s)
    IN  CASE j + 1 > Len(s) -> ParseFail
          [] j + 1 <= Len(s) /\ s[j + 1] # 117 ->
                IF Unescaped(s[j + 1]) < 0 THEN ParseFail
                ELSE Parsed(Unescaped(s[j + 1]), j + 2)
          [] j + 1 <= Len(s) /\ s[j + 1] = 117 /\ uni < 0 -> ParseFail
          [] j + 1 <= Len(s) /\ s[j + 1] = 117 /\ uni >= 0 /\ ~paired -> Parsed(uni, j + 6)
          [] OTHER ->
                IF uni2 < 0 THEN ParseFail
                ELSE IF 56320 <= uni2 /\ uni2 <= 57343
                THEN Parsed(65536 + (uni - 55296) * 1024 + (uni2 - 56320), j + 12)
                ELSE Parsed(uni, j + 6)

\* scanstring from index i, just after the opening quote or an escape (strict:
\* a control character in a string is an error): the characters up to the next
\* quote, backslash or control character at j are taken as they are
RECURSIVE scanstring(_, _, _)
ScanChunk(s, i, chunks, j) ==
    CASE j > Len(s) -> ParseFail
      [] j <= Len(s) /\ s[j] = 34 -> Parsed(JStr(chunks \o SubSeq(s, i, j - 1)), j + 1)
      [] j <= Len(s) /\ s[j] < 32 -> ParseFail
      [] OTHER ->
            Strict1(LAMBDA esc :
                        IF ~esc.ok THEN ParseFail
                        ELSE Strict3(scanstring, s, esc.end,
                                     Append(chunks \o SubSeq(s, i, j - 1), esc.value)),
                    ScanEscape(s, j))

scanstring(s, i, chunks) ==
    Strict1(LAMBDA j : ScanChunk(s, i, chunks, j),
            FirstFrom(s, i, LAMBDA c : c = 34 \/ c = 92 \/ c < 32))

\* the index after the run of digits that starts at i
DigitsEnd(s, i) == IF i > Len(s) THEN i ELSE FirstFrom(s, i, LAMBDA c : ~IsDigit(c))

\* int() of the digits s[from..to]
RECURSIVE NatOf(_, _, _)
NatOf(s, from, to) ==
    IF to < from THEN 0 ELSE NatOf(s, from, to - 1) * 10 + (s[to] - 48)

\* json.scanner.NUMBER_RE at index i: (-?(?:0|[1-9]\d*))(\.\d+)?([eE][-+]?\d+)?
\* with the integer part ending before intEnd
NumberUpTo(s, i, intEnd) ==
    LET neg == i <= Len(s) /\ s[i] = 45
        j == IF neg THEN i + 1 ELSE i
        fracEnd == IF /\ intEnd <= Len(s) /\ s[intEnd] = 46
                      /\ DigitsEnd(s, intEnd + 1) > intEnd + 1
                   THEN DigitsEnd(s, intEnd + 1) ELSE intEnd
        expDigits == IF fracEnd <= Len(s) /\ s[fracEnd] \in {69, 101}
                     THEN IF fracEnd + 1 <= Len(s) /\ s[fracEnd + 1] \in {43, 45}
                          THEN fracEnd + 2 ELSE fracEnd + 1
                     ELSE 0
        expEnd == IF expDigits > 0 /\ DigitsEnd(s, expDigits) > expDigits
                  THEN DigitsEnd(s, expDigits) ELSE fracEnd
    IN  IF intEnd = j THEN ParseFail
        ELSE IF expEnd = intEnd
        THEN Parsed(JInt(IF neg THEN -NatOf(s, j, intEnd - 1) ELSE NatOf(s, j, intEnd - 1)),
                    intEnd)
        ELSE Parsed(JFloat(SubSeq(s, i, expEnd - 1)), expEnd)

ScanNumber(s, i) ==
    LET j == IF i <= Len(s) /\ s[i] = 45 THEN i + 1 ELSE i
    IN  Strict3(NumberUpTo, s, i,
                IF j <= Len(s) /\ s[j] = 48 THEN j + 1 ELSE DigitsEnd(s, j))

\* dict(pairs): a key that comes again keeps its place and takes the new value
SetItem(pairs, key, value) ==
    IF \E k \in 1..Len(pairs) : pairs[k][1] = key
    THEN [k \in 1..Len(pairs) |-> IF pairs[k][1] = key THEN <<key, value>> ELSE pairs[k]]
    ELSE Append(pairs, <<key, value>>)

\* json.scanner's scan_once at index i, with JSONArray and JSONObject
RECURSIVE scan_once(_, _)
RECURSIVE JSONArray(_, _, _)
RECURSIVE JSONObject(_, _, _)

\* what follows an item of an array, after whitespace, at index next
AfterItem(s, values, item, next) ==
    CASE next > Len(s) -> ParseFail
      [] next <= Len(s) /\ s[next] = 93 -> Parsed(JList(Append(values, item.value)), next + 1)
      [] next <= Len(s) /\ s[next] = 44 ->
            Strict3(JSONArray, s, SkipWhitespace(s, next + 1), Append(values, item.value))
      [] OTHER -> ParseFail

\* the items of an array from index i, which is where a value must start
JSONArray(s, i, values) ==
    Strict1(LAMBDA item :
                IF ~item.ok THEN ParseFail
                ELSE Strict1(LAMBDA next : AfterItem(s, values, item, next),
                             SkipWhitespace(s, item.end)),
            scan_once(s, i))

\* what follows a member of an object, after whitespace, at index next
AfterMember(s, pairs, next) ==
    CASE next > Len(s) -> ParseFail
      [] next <= Len(s) /\ s[next] = 125 -> Parsed(JDict(pairs), next + 1)
      [] next <= Len(s) /\ s[next] = 44 ->
            Strict3(JSONObject, s, SkipWhitespace(s, next + 1), pairs)
      [] OTHER -> ParseFail

\* the value of a member after its key, which must be followed by a colon
MemberValue(s, pairs, key, colon) ==
    IF colon > Len(s) \/ s[colon] # 58 THEN ParseFail
    ELSE Strict1(LAMBDA member :
                     IF ~member.ok THEN ParseFail
                     ELSE Strict3(AfterMember, s, SetItem(pairs, key.value.val, member.value),
                                  SkipWhitespace(s, member.end)),
                 scan_once(s, SkipWhitespace(s, colon + 1)))

\* the members of an object from index i, which is where a key must start
JSONObject(s, i, pairs) ==
    IF i > Len(s) \/ s[i] # 34 THEN ParseFail
    ELSE Strict1(LAMBDA key :
                     IF ~key.ok THEN ParseFail
                     ELSE Strict1(LAMBDA colon : MemberValue(s, pairs, key, colon),
                                  SkipWhitespace(s, key.end)),
                 scanstring(s, i + 1, <<>>))

\* an object or an array whose first character after the bracket is at first
ScanContainer(s, c, first) ==
    IF c = 123
    THEN IF first <= Len(s) /\ s[first] = 125 THEN Parsed(JDict(<<>>), first + 1)
         ELSE JSONObject(s, first, <<>>)
    ELSE IF first <= Len(s) /\ s[first] = 93 THEN Parsed(JList(<<>>), first + 1)
         ELSE JSONArray(s, first, <<>>)

\* a number at index i, or -Infinity
ScanNumeric(s, i) ==
    Strict1(LAMBDA number :
                IF number.ok THEN number
                ELSE IF StartsWith(s, i, <<45, 73, 110, 102, 105, 110, 105, 116, 121>>)
                THEN Parsed(JFloat(SubSeq(s, i, i + 8)), i + 9)
                ELSE ParseFail,
            ScanNumber(s, i))

\* scan_once: what the character at index i starts
scan_once(s, i) ==
    LET c == IF i <= Len(s) THEN s[i] ELSE -1
    IN  CASE c = 34 -> scanstring(s, i + 1, <<>>)
          [] c \in {123, 91} -> Strict3(ScanContainer, s, c, SkipWhitespace(s, i + 1))
          [] c = 110 /\ StartsWith(s, i, <<110, 117, 108, 108>>) -> Parsed(JNull, i + 4)
          [] c = 116 /\ StartsWith(s, i, <<116, 114, 117, 101>>) -> Parsed(JBool(TRUE), i + 4)
          [] c = 102 /\ StartsWith(s, i, <<102, 97, 108, 115, 101>>) ->
                Parsed(JBool(FALSE), i + 5)
          [] c \in {45} \cup 48..57 -> ScanNumeric(s, i)
          [] c = 78 /\ StartsWith(s, i, <<78, 97, 78>>) -> Parsed(JFloat(<<78, 97, 78>>), i + 3)
          [] c = 73 /\ StartsWith(s, i, <<73, 110, 102, 105, 110, 105, 116, 121>>) ->
                Parsed(JFloat(SubSeq(s, i, i + 7)), i + 8)
          [] OTHER -> ParseFail

\* JSONDecoder.decode on a str: one value between whitespace, and nothing after
JSONDecode(s) ==
    Strict1(LAMBDA obj :
                IF ~obj.ok THEN Raised("JSONDecodeError")
                ELSE IF SkipWhitespace(s, obj.end) # Len(s) + 1 THEN Raised("JSONDecodeError")
                ELSE Decoded(obj.value),
            scan_once(s, SkipWhitespace(s, 1)))

\* a UTF-8 continuation byte at index i
IsCont(b, i) == i <= Len(b) /\ 128 <= b[i] /\ b[i] <= 191

\* bytes.decode('utf-8', 'surrogatepass') from index i: the bytes below 128
\* are characters as they are, a byte from 128 on (at j) starts a sequence of
\* two, three or four bytes or is an error
RECURSIVE utf8_decode(_, _, _)
DecodeSequence(b, text, j) ==
    LET lead == IF j <= Len(b) THEN b[j] ELSE -1
    IN  CASE j > Len(b) -> Decoded(text)
          [] 194 <= lead /\ lead <= 223 /\ IsCont(b, j + 1) ->
                Strict3(utf8_decode, b, j + 2,
                        Append(text, (lead - 192) * 64 + (b[j + 1] - 128)))
          [] /\ 224 <= lead /\ lead <= 239 /\ IsCont(b, j + 1) /\ IsCont(b, j + 2)
             /\ (lead = 224 => b[j + 1] >= 160) ->
                Strict3(utf8_decode, b, j + 3,
                        Append(text, (lead - 224) * 4096 + (b[j + 1] - 128) * 64
                                     + (b[j + 2] - 128)))
          [] /\ 240 <= lead /\ lead <= 244
             /\ IsCont(b, j + 1) /\ IsCont(b, j + 2) /\ IsCont(b, j + 3)
             /\ (lead = 240 => b[j + 1] >= 144)
             /\ (lead = 244 => b[j + 1] <= 143) ->
                Strict3(utf8_decode, b, j + 4,
                        Append(text, (lead - 240) * 262144 + (b[j + 1] - 128) * 4096
                                     + (b[j + 2] - 128) * 64 + (b[j + 3] - 128)))
          [] OTHER -> Raised("UnicodeDecodeError")

utf8_decode(b, i, chars) ==
    Strict1(LAMBDA j : Strict3(DecodeSequence, b, chars \o SubSeq(b, i, j - 1), j),
            FirstFrom(b, i, LAMBDA c : c >= 128))

\* bytes.decode('utf-16-be' / 'utf-16-le', 'surrogatepass') of code units
\* outside the surrogate range: two bytes a character, an odd byte is an error
utf16_decode(b, big) ==
    IF Len(b) % 2 # 0 THEN Raised("UnicodeDecodeError")
    ELSE Decoded([k \in 1..(Len(b) \div 2) |->
                     IF big THEN b[2 * k - 1] * 256 + b[2 * k]
                     ELSE b[2 * k] * 256 + b[2 * k - 1]])

\* bytes.decode('utf-32-be' / 'utf-32-le', 'surrogatepass'): four bytes a
\* character, which must be a code point
utf32_decode(b, big) ==
    LET unit(k) == IF big
                   THEN ((b[4 * k - 3] * 256 + b[4 * k - 2]) * 256 + b[4 * k - 1]) * 256 + b[4 * k]
                   ELSE ((b[4 * k] * 256 + b[4 * k - 1]) * 256 + b[4 * k - 2]) * 256 + b[4 * k - 3]
    IN  IF Len(b) % 4 # 0 THEN Raised("UnicodeDecodeError")
        ELSE IF \E k \in 1..(Len(b) \div 4) : unit(k) > 1114111
        THEN Raised("UnicodeDecodeError")
        ELSE Decoded([k \in 1..(Len(b) \div 4) |-> unit(k)])

\* json.detect_encoding(b) followed by b.decode(encoding, 'surrogatepass')
DecodeDetected(b) ==
    LET at(k) == IF k <= Len(b) THEN b[k] ELSE -1
    IN  IF StartsWith(b, 1, <<0, 0, 254, 255>>)
        THEN Strict2(utf32_decode, SubSeq(b, 5, Len(b)), TRUE)
        ELSE IF StartsWith(b, 1, <<255, 254, 0, 0>>)
        THEN Strict2(utf32_decode, SubSeq(b, 5, Len(b)), FALSE)
        ELSE IF StartsWith(b, 1, <<254, 255>>)
        THEN Strict2(utf16_decode, SubSeq(b, 3, Len(b)), TRUE)
        ELSE IF StartsWith(b, 1, <<255, 254>>)
        THEN Strict2(utf16_decode, SubSeq(b, 3, Len(b)), FALSE)
        ELSE IF StartsWith(b, 1, <<239, 187, 191>>)
        THEN Strict3(utf8_decode, SubSeq(b, 4, Len(b)), 1, <<>>)
        ELSE IF Len(b) >= 4 /\ at(1) = 0
        THEN IF at(2) # 0 THEN utf16_decode(b, TRUE) ELSE utf32_decode(b, TRUE)
        ELSE IF Len(b) >= 4 /\ at(2) = 0
        THEN IF at(3) # 0 \/ at(4) # 0 THEN utf16_decode(b, FALSE) ELSE utf32_decode(b, FALSE)
        ELSE IF Len(b) = 2 /\ at(1) = 0 THEN utf16_decode(b, TRUE)
        ELSE IF Len(b) = 2 /\ at(2) = 0 THEN utf16_decode(b, FALSE)
        ELSE utf8_decode(b, 1, <<>>)

\* json.loads of bytes: the text they decode to is parsed
LoadsText(text) == IF text.ok THEN Strict1(JSONDecode, text.value) ELSE text

\* json.loads(s): a str is parsed as it is (a leading BOM is an error), bytes
\* are decoded first, anything else is a TypeError
json_loads(arg) ==
    Strict1(LAMBDA a :
                IF a.kind = "str"
                THEN IF StartsWith(a.val, 1, <<65279>>) THEN Raised("JSONDecodeError")
                     ELSE Strict1(JSONDecode, a.val)
                ELSE IF a.kind = "bytes"
                THEN Strict1(LoadsText, Strict1(DecodeDetected, a.val))
                ELSE Raised("TypeError"),
            arg)

---------------------------------------------------------------------------
(* decoders.py on text: the four decoders as they are called with a str *)

\* the result of json.loads in decode_summary: JSONDecodeError and
\* UnicodeDecodeError become ZeppDecodeError
SummaryLoaded(loaded) ==
    IF ~loaded.ok /\ loaded.error \in {"JSONDecodeError", "UnicodeDecodeError"}
    THEN DecodeError ELSE loaded

\* mutant: the decoded bytes are returned as text, json.loads is left out
SummaryOfBytes_NoLoads(decoded_bytes) ==
    IF ~decoded_bytes.ok
    THEN IF decoded_bytes.error = "binascii.Error" THEN DecodeError ELSE decoded_bytes
    ELSE Decoded(JStr(decoded_bytes.value))

\* the result of b64decode in decode_summary: binascii.Error becomes
\* ZeppDecodeError, the bytes go to json.loads
SummaryOfBytes(decoded_bytes) ==
    IF ~decoded_bytes.ok
    THEN IF decoded_bytes.error = "binascii.Error" THEN DecodeError ELSE decoded_bytes
    ELSE Strict1(SummaryLoaded, json_loads(Bytes(decoded_bytes.value)))

\* decode_summary: b64decode, then json.loads of the bytes; any exception
\* other than the three that are caught leaves as it is.  (SummaryBlob stands
\* for such a str: b64ok and jsonok say which of the two steps succeed on it,
\* obj is the value.)
decode_summary_str(raw_b64) == Strict1(SummaryOfBytes, b64decode(raw_b64))

\* the readings of the result of b64decode (binascii.Error becomes
\* ZeppDecodeError)
ReadingsOfBytes(hr_bytes) ==
    IF ~hr_bytes.ok
    THEN IF hr_bytes.error = "binascii.Error" THEN DecodeError ELSE hr_bytes
    ELSE Decoded(ReadingsFrom(hr_bytes.value, 1))

\* decode_heart_rate: b64decode, then the readings of the bytes
decode_heart_rate_str(raw_b64) == Strict1(ReadingsOfBytes, b64decode(raw_b64))

\* mutant: the raw list leaves out the bytes that are no reading
ListOfBytes_Filtered(hr_bytes) ==
    IF ~hr_bytes.ok
    THEN IF hr_bytes.error = "binascii.Error" THEN DecodeError ELSE hr_bytes
    ELSE Decoded(SelectSeq(hr_bytes.value, LAMBDA v : 0 < v /\ v < 254))

\* list(hr_bytes) of the result of b64decode (binascii.Error becomes
\* ZeppDecodeError)
ListOfBytes(hr_bytes) ==
    IF ~hr_bytes.ok
    THEN IF hr_bytes.error = "binascii.Error" THEN DecodeError ELSE hr_bytes
    ELSE Decoded(hr_bytes.value)

\* decode_heart_rate_raw: b64decode, then list(hr_bytes)
decode_heart_rate_raw_str(raw_b64) == Strict1(ListOfBytes, b64decode(raw_b64))

\* the result of json.loads in decode_stress_data: JSONDecodeError and
\* TypeError become ZeppDecodeError
StressLoaded(loaded) ==
    IF ~loaded.ok /\ loaded.error \in {"JSONDecodeError", "TypeError"}
    THEN DecodeError ELSE loaded

\* decode_stress_data: json.loads of the argument
decode_stress_data(data_string) == Strict1(StressLoaded, json_loads(data_string))

---------------------------------------------------------------------------
(* The arguments the decoders are given *)

\* the sequences over S of length 0..n
SeqsUpTo(S, n) == UNION { [1..k -> S] : k \in 0..n }

\* strs over "M", "A", "D" (base64 digits), "=", "!" and "e-acute"
B64Texts == { Str(t) : t \in SeqsUpTo({77, 65, 68, 61, 33, 233}, MaxText) }

\* byte arrays over the readings 1, 72, 253 and the values 0, 254, 255, and the
\* arrays of a whole day and more whose last two bytes are readings
HrByteArrays ==
    SeqsUpTo({0, 1, 72, 253, 254, 255}, MaxBytes)
    \cup { [i \in 1..n |-> IF i > n - 2 THEN 72 ELSE 255] : n \in 1439..MaxDayBytes }

JsonScalars ==
    { JNull, JBool(TRUE), JBool(FALSE), JInt(0), JInt(-7), JInt(6548),
      JStr(<<>>), JStr(<<97>>), JStr(<<97, 34, 10, 233>>) }

\* the keys "a", "slp" and "\\"
JsonKeys == { <<97>>, <<115, 108, 112>>, <<92>> }

\* lists of distinct keys
KeyLists(n) ==
    { ks \in SeqsUpTo(JsonKeys, n) : \A i, j \in 1..Len(ks) : ks[i] = ks[j] => i = j }

\* scalars, and lists and dicts of scalars
JsonFlat ==
    JsonScalars
    \cup { JList(items) : items \in SeqsUpTo(JsonScalars, MaxItems) }
    \cup UNION { { JDict([i \in 1..Len(ks) |-> <<ks[i], vs[i]>>]) :
                     vs \in [1..Len(ks) -> JsonScalars] }
                 : ks \in KeyLists(MaxItems) }

\* ... and a list or a dict holding one of those
JsonObjects ==
    JsonFlat
    \cup { JList(<<x>>) : x \in JsonFlat }
    \cup { JDict(<< <<(<<115, 108, 112>>), x>> >>) : x \in JsonFlat }

\* base64.b64encode(json.dumps(x).encode()).decode(), as the tests encode
EncodeSummary(x) == Str(b64encode(json_dumps(x)))

\* {"time": t, "value": v}
StressReading(t, v) ==
    JDict(<< <<(<<116, 105, 109, 101>>), JInt(t)>>, <<(<<118, 97, 108, 117, 101>>), JInt(v)>> >>)

\* what decode_stress_data may be handed: a str over "[", "]", "5", ",", " "
\* and "{", the JSON text of a list of readings, None, a number, bytes
StressArgs ==
    { Str(t) : t \in SeqsUpTo({91, 93, 53, 44, 32, 123}, MaxText) }
    \cup { Str(json_dumps(JList(rs))) :
             rs \in SeqsUpTo({StressReading(600000, 47), StressReading(900000, 100)}, MaxItems) }
    \cup { NoneArg, IntArg(5), Bytes(<<91, 93>>), Bytes(<<255>>) }

---------------------------------------------------------------------------
(* The decoders, called once *)

InitDecode ==
    /\ zone = [std |-> 0, dst |-> FALSE, dstFrom |-> 0]
    /\ hist = [k \in Days |-> NoRecord]
    /\ call = Idle
    /\ result = Idle
    /\ heart_rate_data = NoData
    /\ steps_data = NoData
    /\ sleep_data = NoData
    /\ tz_offset_hours = 0
    /\ exported = NotExported
    /\ cache = NoFiles
    /\ today = 1
    /\ served = 0
    /\ cli = NoCommand
    /\ disk = {}
    /\ threads = <<>>
    /\ upstream = <<>>

DecoderCall(method, arg, made_from, origin) ==
    [kind |-> "call", method |-> method, arg |-> arg,
     made_from |-> made_from, origin |-> origin]

\* decode_summary(raw_b64) of some str
DecodeSummary ==
    /\ call = Idle
    /\ \E raw_b64 \in B64Texts :
          /\ call' = DecoderCall("decode_summary", raw_b64, "text", <<>>)
          /\ result' = decode_summary_str(raw_b64)
    /\ UNCHANGED <<cliVars, raceVars, zone, hist, exportVars, serverVars>>

\* decode_summary(raw_b64) of an encoded JSON value
DecodeSummaryOfObject ==
    /\ call = Idle
    /\ \E x \in JsonObjects : \E raw_b64 \in {EncodeSummary(x)} :
          /\ call' = DecoderCall("decode_summary", raw_b64, "object", x)
          /\ result' = decode_summary_str(raw_b64)
    /\ UNCHANGED <<cliVars, raceVars, zone, hist, exportVars, serverVars>>

\* decode_heart_rate(raw_b64) of some str
DecodeHeartRate ==
    /\ call = Idle
    /\ \E raw_b64 \in B64Texts :
          /\ call' = DecoderCall("decode_heart_rate", raw_b64, "text", <<>>)
          /\ result' = decode_heart_rate_str(raw_b64)
    /\ UNCHANGED <<cliVars, raceVars, zone, hist, exportVars, serverVars>>

\* decode_heart_rate(raw_b64) of an encoded byte array
DecodeHeartRateOfBytes ==
    /\ call = Idle
    /\ \E b \in HrByteArrays : \E raw_b64 \in {Str(b64encode(b))} :
          /\ call' = DecoderCall("decode_heart_rate", raw_b64, "bytes", b)
          /\ result' = decode_heart_rate_str(raw_b64)
    /\ UNCHANGED <<cliVars, raceVars, zone, hist, exportVars, serverVars>>

\* decode_heart_rate_raw(raw_b64) of some str
DecodeHeartRateRaw ==
    /\ call = Idle
    /\ \E raw_b64 \in B64Texts :
          /\ call' = DecoderCall("decode_heart_rate_raw", raw_b64, "text", <<>>)
          /\ result' = decode_heart_rate_raw_str(raw_b64)
    /\ UNCHANGED <<cliVars, raceVars, zone, hist, exportVars, serverVars>>

\* decode_heart_rate_raw(raw_b64) of an encoded byte array
DecodeHeartRateRawOfBytes ==
    /\ call = Idle
    /\ \E b \in HrByteArrays : \E raw_b64 \in {Str(b64encode(b))} :
          /\ call' = DecoderCall("decode_heart_rate_raw", raw_b64, "bytes", b)
          /\ result' = decode_heart_rate_raw_str(raw_b64)
    /\ UNCHANGED <<cliVars, raceVars, zone, hist, exportVars, serverVars>>

\* decode_stress_data(data_string)
DecodeStressData ==
    /\ call = Idle
    /\ \E data_string \in StressArgs :
          /\ call' = DecoderCall("decode_stress_data", data_string, "text", <<>>)
          /\ result' = decode_stress_data(data_string)
    /\ UNCHANGED <<cliVars, raceVars, zone, hist, exportVars, serverVars>>

NextDecode ==
    \/ DecodeSummary \/ DecodeSummaryOfObject
    \/ DecodeHeartRate \/ DecodeHeartRateOfBytes
    \/ DecodeHeartRateRaw \/ DecodeHeartRateRawOfBytes
    \/ DecodeStressData

SpecDecode == InitDecode /\ [][NextDecode]_vars

---------------------------------------------------------------------------
(* The decoder contracts *)

\* the call that has been made is method(...) of an encoded byte array
OfBytes(method) ==
    /\ call # Idle
    /\ call.method = method
    /\ call.made_from = "bytes"

\* C11: for every byte sequence, decode_heart_rate returns one sample per
\* index i (counted from 0) whose byte v has 0 < v < 254, and no other: each
\* sample has minute = i and bpm = v, and the minutes are strictly ascending,
\* so the output is the filtered subsequence of the input.
C11_FilteredSubsequence ==
    OfBytes("decode_heart_rate") =>
        LET hr_bytes == call.origin
            readings == result.value
        IN  /\ result.ok
            /\ \A i \in 1..Len(hr_bytes) :
                  (0 < hr_bytes[i] /\ hr_bytes[i] < 254)
                  <=> \E j \in 1..Len(readings) : readings[j].minute = i - 1
            /\ \A j \in 1..Len(readings) :
                  /\ readings[j].minute \in 0..(Len(hr_bytes) - 1)
                  /\ readings[j].bpm = hr_bytes[readings[j].minute + 1]
            /\ \A j \in 1..(Len(readings) - 1) :
                  readings[j].minute < readings[j + 1].minute

\* the bytes 0, 72, 254, 253 give the samples of minutes 1 and 3
C11_Witness ==
    /\ OfBytes("decode_heart_rate")
    /\ call.origin = <<0, 72, 254, 253>>
    /\ result.ok
    /\ Len(result.value) = 2
    /\ result.value[1].minute = 1 /\ result.value[1].bpm = 72
    /\ result.value[2].minute = 3 /\ result.value[2].bpm = 253

\* C12: for every byte sequence, decode_heart_rate_raw returns a list as long
\* as the input whose element at each position is the byte at that position,
\* 0, 254 and 255 included.
C12_RawKeepsEveryByte ==
    OfBytes("decode_heart_rate_raw") =>
        /\ result.ok
        /\ Len(result.value) = Len(call.origin)
        /\ \A i \in 1..Len(call.origin) : result.value[i] = call.origin[i]

\* the bytes 0, 254, 255, 72 come back as they are
C12_Witness ==
    /\ OfBytes("decode_heart_rate_raw")
    /\ call.origin = <<0, 254, 255, 72>>
    /\ result.ok
    /\ result.value = <<0, 254, 255, 72>>

\* the call that has been made is decode_summary of the encoding of a value
OfObject ==
    /\ call # Idle
    /\ call.method = "decode_summary"
    /\ call.made_from = "object"

\* C13: decode_summary round-trips: for every JSON-compatible object x (null,
\* booleans, integers, strings, and lists and dicts of them),
\* decode_summary(base64(json_text(x))) returns a value equal to x.
C13_RoundTrip ==
    OfObject => result.ok /\ result.value = call.origin

\* {"slp": {"\\": "a\"\né", "a": -7}} comes back as it was
C13_Witness ==
    /\ OfObject
    /\ call.origin =
          JDict(<< <<(<<115, 108, 112>>),
                     JDict(<< <<(<<92>>), JStr(<<97, 34, 10, 233>>)>>,
                              <<(<<97>>), JInt(-7)>> >>)>> >>)
    /\ result = Decoded(call.origin)

\* a str in the base64 alphabet with valid padding: groups of four characters,
\* all of them digits but for one or two "=" that end the last group
ValidBase64(t) ==
    /\ Len(t) % 4 = 0
    /\ \A i \in 1..Len(t) :
          \/ B64Value(t[i]) < 64
          \/ /\ IsPad(t[i])
             /\ i >= Len(t) - 1
             /\ \A k \in i..Len(t) : IsPad(t[k])

\* the call that has been made is a base64 decoder on some str
OfText ==
    /\ call # Idle
    /\ call.method \in {"decode_summary", "decode_heart_rate", "decode_heart_rate_raw"}
    /\ call.made_from = "text"

\* C14: every base64 decoder (decode_summary, decode_heart_rate,
\* decode_heart_rate_raw) fails with ZeppDecodeError, with no other error and
\* no result, whenever its input has invalid padding or a character outside the
\* base64 alphabet; decode_summary fails with ZeppDecodeError as well when the
\* decoded bytes are not valid JSON.
C14_InvalidInputFails ==
    OfText =>
        /\ ~ValidBase64(call.arg.val) => result = DecodeError
        /\ (/\ call.method = "decode_summary"
            /\ ValidBase64(call.arg.val)
            /\ ~json_loads(Bytes(b64decode(call.arg).value)).ok)
           => result = DecodeError

\* a list of {"time": ..., "value": ...} readings
IsReadingList(v) ==
    /\ v.kind = "list"
    /\ \A i \in 1..Len(v.val) :
          /\ v.val[i].kind = "dict"
          /\ { v.val[i].val[k][1] : k \in 1..Len(v.val[i].val) }
                = { <<116, 105, 109, 101>>, <<118, 97, 108, 117, 101>> }
          /\ \A k \in 1..Len(v.val[i].val) : v.val[i].val[k][2].kind = "int"

\* C15: decode_stress_data returns the empty list for "[]", fails with
\* ZeppDecodeError for every input that is not valid JSON text (None and other
\* non-string inputs included), and whenever it returns, returns a list of
\* {time, value} readings.
C15_StressContract ==
    (call # Idle /\ call.method = "decode_stress_data") =>
        /\ call.arg = Str(<<91, 93>>) => result = Decoded(JList(<<>>))
        /\ ~json_loads(call.arg).ok => result = DecodeError
        /\ result.ok => IsReadingList(result.value)

---------------------------------------------------------------------------
(* The stage expansion of get_sleep *)

\* segments holds one segment per raw stage, in the raw order, each with the
\* stage's start and stop, their difference as duration, and the stage named by
\* its mode
OneSegmentPerStage(segments, raw) ==
    /\ Len(segments) = Len(raw)
    /\ \A k \in 1..Len(raw) :
          /\ segments[k].start_minute = raw[k].start
          /\ segments[k].end_minute = raw[k].stop
          /\ segments[k].duration_minutes = raw[k].stop - raw[k].start
          /\ raw[k].mode = 4 => segments[k].stage = "light"
          /\ raw[k].mode = 5 => segments[k].stage = "deep"
          /\ raw[k].mode = 7 => segments[k].stage = "awake"
          /\ raw[k].mode = 8 => segments[k].stage = "rem"
          /\ raw[k].mode \notin {4, 5, 7, 8} =>
                segments[k].stage = "unknown_" \o ToString(raw[k].mode)

\* C16: stage expansion in get_sleep is lossless: each raw stage and each raw
\* nap stage of the accepted session yields exactly one output segment, in the
\* same order, with stage light/deep/awake/rem for mode 4/5/7/8 and
\* unknown_<code> for any other mode, and duration_minutes = stop - start; an
\* unrecognized mode drops no segment and raises no error.
C16_LosslessStages ==
    Fetched("get_sleep") =>
        /\ result.kind \in {"sleep", "empty"}
        /\ result.kind = "sleep" =>
              \E i \in Positions :
                  /\ RawHoldsSession(call.resp.data[i])
                  /\ Returns(i)
                  /\ OneSegmentPerStage(result.stages, RawSession(call.resp.data[i]).stage)
                  /\ OneSegmentPerStage(result.nap_stages,
                                        RawSession(call.resp.data[i]).odd_stage)

\* a session with five night stages, the last of the unknown mode 9, and one
\* nap stage is returned with five segments and one nap segment
C16_Witness ==
    /\ Fetched("get_sleep")
    /\ result.kind = "sleep"
    /\ Len(result.stages) = 5
    /\ result.stages[5].stage = "unknown_9"
    /\ result.stages[5].duration_minutes = 10
    /\ Len(result.nap_stages) = 1
    /\ result.nap_stages[1].stage = "light"

---------------------------------------------------------------------------
(* export.py: export_csv *)

\* A row is a dict: its key/value pairs in insertion order, keys as code
\* points, values None, an int or a str.

\* str(value) as csv.writer takes it: None is the empty field
FieldText(value) ==
    CASE value.kind = "null" -> <<>>
      [] value.kind = "int" -> IntText(value.val[1])
      [] OTHER -> value.val

\* the field as the excel dialect writes it (QUOTE_MINIMAL, doublequote): in
\* quotes, with every quote doubled, if it holds a comma, a quote, CR or LF
RECURSIVE DoubledFrom(_, _)
DoubledFrom(field, i) ==
    IF i > Len(field) THEN <<>>
    ELSE (IF field[i] = 34 THEN <<34, 34>> ELSE <<field[i]>>) \o DoubledFrom(field, i + 1)

WrittenField(field) ==
    IF \E i \in 1..Len(field) : field[i] \in {44, 34, 13, 10}
    THEN <<34>> \o DoubledFrom(field, 1) \o <<34>>
    ELSE field

RECURSIVE JoinFrom(_, _)
JoinFrom(fields, i) ==
    IF i > Len(fields) THEN <<>>
    ELSE (IF i > 1 THEN <<44>> ELSE <<>>) \o WrittenField(fields[i]) \o JoinFrom(fields, i + 1)

\* csv.writer.writerow(fields): the fields joined by commas and ended by CR LF;
\* a record of one empty field is written as a pair of quotes
writerow(fields) ==
    IF Len(fields) = 1 /\ fields[1] = <<>> THEN <<34, 34, 13, 10>>
    ELSE JoinFrom(fields, 1) \o <<13, 10>>

\* row.keys() in order, and row.get(key, "")
Keys(row) == [k \in 1..Len(row) |-> row[k][1]]
GetOr(row, key, restval) ==
    IF \E k \in 1..Len(row) : row[k][1] = key
    THEN (CHOOSE pair \in {row[k] : k \in 1..Len(row)} : pair[1] = key)[2]
    ELSE restval

\* DictWriter._dict_to_list with extrasaction='raise': a key that is no
\* fieldname is a ValueError, a fieldname the row lacks gives restval ''
dict_to_list(fieldnames, row) ==
    IF \E k \in 1..Len(row) : \A j \in 1..Len(fieldnames) : fieldnames[j] # row[k][1]
    THEN Raised("ValueError")
    ELSE Decoded([j \in 1..Len(fieldnames) |-> FieldText(GetOr(row, fieldnames[j], JStr(<<>>)))])

\* DictWriter.writerows from row i on: each row is converted and written in
\* turn, so the rows before one that raises are in the file
RECURSIVE writerows(_, _, _, _)
WriteOne(fieldnames, rows, i, content, fields) ==
    IF ~fields.ok THEN [outcome |-> fields, content |-> content]
    ELSE Strict2(LAMBDA j, c : writerows(fieldnames, rows, j, c),
                 i + 1, content \o writerow(fields.value))

writerows(fieldnames, rows, i, content) ==
    IF i > Len(rows) THEN [outcome |-> Decoded(None), content |-> content]
    ELSE Strict1(LAMBDA fields : WriteOne(fieldnames, rows, i, content, fields),
                 dict_to_list(fieldnames, rows[i]))

\* "# No data\n"
NoDataMarker == <<35, 32, 78, 111, 32, 100, 97, 116, 97, 10>>

\* mutant: the header is taken from the last row
Fieldnames_LastRow(rows) == Keys(rows[Len(rows)])

\* fieldnames = list(rows[0].keys())
Fieldnames(rows) == Keys(rows[1])

\* export_csv(rows, filepath): the outcome and the file it leaves at filepath
export_csv(rows) ==
    IF rows = <<>> THEN [outcome |-> Decoded(None), content |-> NoDataMarker]
    ELSE Strict2(LAMBDA fieldnames, header : writerows(fieldnames, rows, 1, header),
                 Fieldnames(rows), writerow(Fieldnames(rows)))

\* the keys "date" and "bpm"
CsvKeys == { <<100, 97, 116, 101>>, <<98, 112, 109>> }

\* None, 72, "rem" and the str a,"
CsvValues == { JNull, JInt(72), JStr(<<114, 101, 109>>), JStr(<<97, 44, 34>>) }

\* the dicts with one or two of the keys, in either order
CsvRows ==
    { row \in UNION { [1..n -> CsvKeys \X CsvValues] : n \in 1..2 } :
        \A i, j \in 1..Len(row) : row[i][1] = row[j][1] => i = j }

\* rows with consistent keys, as export_csv requires: no row has a key the
\* first row lacks
CsvRowSets ==
    { rows \in SeqsUpTo(CsvRows, MaxRows) :
        \A i \in 1..Len(rows) : \A k \in 1..Len(rows[i]) :
            \E j \in 1..Len(rows[1]) : rows[1][j][1] = rows[i][k][1] }

\* export_csv(rows, filepath)
ExportCsv ==
    /\ call = Idle
    /\ exported = NotExported
    /\ \E rows \in CsvRowSets : \E done \in {export_csv(rows)} :
          /\ call' = [kind |-> "call", method |-> "export_csv", rows |-> rows]
          /\ result' = done.outcome
          /\ exported' = [kind |-> "csv", content |-> done.content]
    /\ UNCHANGED <<cliVars, raceVars, zone, hist, heart_rate_data, steps_data, sleep_data, tz_offset_hours, serverVars>>

NextCsv == ExportCsv

SpecCsv == InitDecode /\ [][NextCsv]_vars

\* the lines of a text: what stands before each LF, a CR before it left off
LinesOf(content) ==
    LET ends == SelectSeq([i \in 1..Len(content) |-> i], LAMBDA i : content[i] = 10)
        from(k) == IF k = 1 THEN 1 ELSE ends[k - 1] + 1
        to(k) == IF ends[k] > 1 /\ content[ends[k] - 1] = 13 THEN ends[k] - 2 ELSE ends[k] - 1
    IN  [k \in 1..Len(ends) |-> SubSeq(content, from(k), to(k))]

\* the fields of a CSV line as csv.reader takes them apart: commas outside
\* quotes separate, a doubled quote inside quotes is a quote
RECURSIVE FieldsFrom(_, _, _, _, _)
FieldsFrom(line, i, fields, field, quoted) ==
    CASE i > Len(line) -> Append(fields, field)
      [] i <= Len(line) /\ quoted /\ line[i] = 34 /\ i < Len(line) /\ line[i + 1] = 34 ->
            Strict3(LAMBDA a, b, c : FieldsFrom(line, a, b, c, TRUE), i + 2, fields,
                    Append(field, 34))
      [] i <= Len(line) /\ quoted /\ line[i] = 34 /\ ~(i < Len(line) /\ line[i + 1] = 34) ->
            Strict3(LAMBDA a, b, c : FieldsFrom(line, a, b, c, FALSE), i + 1, fields, field)
      [] i <= Len(line) /\ ~quoted /\ line[i] = 34 ->
            Strict3(LAMBDA a, b, c : FieldsFrom(line, a, b, c, TRUE), i + 1, fields, field)
      [] i <= Len(line) /\ ~quoted /\ line[i] = 44 ->
            Strict3(LAMBDA a, b, c : FieldsFrom(line, a, b, c, FALSE), i + 1,
                    Append(fields, field), <<>>)
      [] OTHER ->
            Strict3(LAMBDA a, b, c : FieldsFrom(line, a, b, c, quoted), i + 1, fields,
                    Append(field, line[i]))

FieldsOf(line) == FieldsFrom(line, 1, <<>>, <<>>, FALSE)

\* export_csv has been called
CsvWritten == call # Idle /\ call.method = "export_csv"

\* C17: export_csv of an empty row set writes a file that holds the no-data
\* marker line and nothing else, so no header; export_csv of a non-empty row
\* set (rows with consistent keys) writes a header line whose columns are the
\* keys of the first row in that row's order, and after it one line per row,
\* the line of row k holding that row's values under the header's columns.
C17_CsvLayout ==
    CsvWritten =>
        LET lines == LinesOf(exported.content)
            rows == call.rows
        IN  /\ result.ok
            /\ rows = <<>> => exported.content = NoDataMarker /\ Len(lines) = 1
            /\ rows # <<>> =>
                  /\ Len(lines) = 1 + Len(rows)
                  /\ FieldsOf(lines[1]) = [k \in 1..Len(rows[1]) |-> rows[1][k][1]]
                  /\ \A i \in 1..Len(rows) :
                        /\ Len(FieldsOf(lines[i + 1])) = Len(rows[1])
                        /\ \A k \in 1..Len(rows[i]) :
                              \E j \in 1..Len(rows[1]) :
                                  /\ rows[1][j][1] = rows[i][k][1]
                                  /\ FieldsOf(lines[i + 1])[j] = FieldText(rows[i][k][2])

\* [{"bpm": 72, "date": 'a,"'}, {"date": "rem", "bpm": None}] gives the header
\* bpm,date and the lines 72,"a,""" and ,rem
C17_Witness ==
    /\ CsvWritten
    /\ call.rows = << << <<(<<98, 112, 109>>), JInt(72)>>,
                         <<(<<100, 97, 116, 101>>), JStr(<<97, 44, 34>>)>> >>,
                      << <<(<<100, 97, 116, 101>>), JStr(<<114, 101, 109>>)>>,
                         <<(<<98, 112, 109>>), JNull>> >> >>
    /\ exported.content =
          <<98, 112, 109, 44, 100, 97, 116, 101, 13, 10>>
          \o <<55, 50, 44, 34, 97, 44, 34, 34, 34, 13, 10>>
          \o <<44, 114, 101, 109, 13, 10>>

---------------------------------------------------------------------------
(* server.py: the endpoints *)

\* str keys of the dicts the server reads and builds
K_bpm == <<98, 112, 109>>
K_error == <<101, 114, 114, 111, 114>>
K_heart_rate == <<104, 101, 97, 114, 116, 95, 114, 97, 116, 101>>
K_readings == <<114, 101, 97, 100, 105, 110, 103, 115>>
K_avg == <<97, 118, 103>>
K_min == <<109, 105, 110>>
K_max == <<109, 97, 120>>
K_sleep == <<115, 108, 101, 101, 112>>
K_steps == <<115, 116, 101, 112, 115>>
K_stress == <<115, 116, 114, 101, 115, 115>>
K_zones == <<122, 111, 110, 101, 115>>
K_avg_stress == <<97, 118, 103, 95, 115, 116, 114, 101, 115, 115>>
K_max_stress == <<109, 97, 120, 95, 115, 116, 114, 101, 115, 115>>
K_min_stress == <<109, 105, 110, 95, 115, 116, 114, 101, 115, 115>>
K_zone_percentages == <<122, 111, 110, 101, 95, 112, 101, 114, 99, 101, 110, 116, 97, 103, 101, 115>>

\* d.get(key) of a dict: None if the key is not there
Get(d, key) == GetOr(d.val, key, JNull)

\* what the client's methods return: a non-empty list or dict and, for three
\* of them, an empty one
HeartRateData(bpms) == JList([i \in 1..Len(bpms) |-> JDict(<< <<K_bpm, JInt(bpms[i])>> >>)])
ClientValues(method) ==
    CASE method = "get_heart_rate" ->
            { JList(<<>>), HeartRateData(<<62, 64, 79>>) }
      [] method = "get_sleep" ->
            { JDict(<<>>), JDict(<< <<<<115, 108, 101, 101, 112, 95, 115, 99, 111, 114, 101>>, JInt(82)>> >>) }
      [] method = "get_steps" ->
            { JDict(<<>>),
              JDict(<< <<<<116, 111, 116, 97, 108, 95, 115, 116, 101, 112, 115>>, JInt(8500)>> >>) }
      [] method = "get_stress" ->
            { JList(<<>>),
              JList(<< JDict(<< <<K_avg_stress, JInt(35)>>, <<K_max_stress, JInt(72)>>,
                                <<K_min_stress, JInt(12)>> >>) >>) }
      [] OTHER ->
            { JList(<< JDict(<< <<<<100, 97, 105, 108, 121, 95, 108, 111, 97, 100>>, JInt(85)>> >>) >>) }

\* a client method raising: the class and str(e)
ClientError(error) ==
    [ok |-> FALSE, error |-> error, message |-> <<83, 101, 114, 118, 101, 114, 32, 101, 114, 114, 111, 114>>]

\* what a call of a client method can come to: a value, or ZeppAuthError or
\* ZeppAPIError
ClientOutcomes(method) ==
    { Decoded(v) : v \in ClientValues(method) }
    \cup { ClientError("ZeppAuthError"), ClientError("ZeppAPIError") }

\* _is_today(date_str), with the day datetime.now() shows
is_today(date_str, now) == date_str = now

\* _is_empty(data): None, [] or {}
is_empty(data) ==
    \/ data = JNull
    \/ data.kind \in {"list", "dict"} /\ data.val = <<>>

RECURSIVE SumFrom(_, _)
SumFrom(bpms, i) == IF i > Len(bpms) THEN 0 ELSE bpms[i] + SumFrom(bpms, i + 1)

\* summary["heart_rate"]: the count, floor average, least and greatest bpm
HeartRateSummary(hr) ==
    IF hr.val = <<>> THEN JNull
    ELSE LET bpms == [i \in 1..Len(hr.val) |-> Get(hr.val[i], K_bpm).val[1]]
             all == {bpms[i] : i \in 1..Len(bpms)}
         IN  JDict(<< <<K_readings, JInt(Len(bpms))>>,
                      <<K_avg, JInt(SumFrom(bpms, 1) \div Len(bpms))>>,
                      <<K_min, JInt(CHOOSE n \in all : \A m \in all : n <= m)>>,
                      <<K_max, JInt(CHOOSE n \in all : \A m \in all : n >= m)>> >>)

\* summary["stress"]: four fields of the first entry
StressSummary(stress) ==
    IF stress.val = <<>> THEN JNull
    ELSE JDict(<< <<K_avg, Get(stress.val[1], K_avg_stress)>>,
                  <<K_max, Get(stress.val[1], K_max_stress)>>,
                  <<K_min, Get(stress.val[1], K_min_stress)>>,
                  <<K_zones, Get(stress.val[1], K_zone_percentages)>> >>)

\* x if x else None
OrNone(x) == IF x.val = <<>> THEN JNull ELSE x

\* the client calls of api_summary, in the order it makes them
SummaryCalls == <<"get_heart_rate", "get_sleep", "get_steps", "get_stress">>

\* how the calls from the i-th on can go: each returns a value until one
\* raises, and none is made after that
RECURSIVE ClientRuns(_, _)
ClientRuns(methods, i) ==
    IF i > Len(methods) THEN {<<>>}
    ELSE { <<got>> : got \in {o \in ClientOutcomes(methods[i]) : ~o.ok} }
         \cup { <<got>> \o rest : got \in {o \in ClientOutcomes(methods[i]) : o.ok},
                                  rest \in ClientRuns(methods, i + 1) }

\* the summary api_summary builds from what its four calls returned
SummaryOf(got) ==
    JDict(<< <<K_heart_rate, HeartRateSummary(got[1].value)>>,
             <<K_sleep, OrNone(got[2].value)>>,
             <<K_steps, OrNone(got[3].value)>>,
             <<K_stress, StressSummary(got[4].value)>> >>)

\* json.load of a file's text
Loaded(text) == json_loads(Str(text)).value

\* what the endpoints hand to _write_cache: a client's non-empty value or a
\* summary; the text json.dump writes for each, and what json.load makes of
\* each text
Cacheable ==
    UNION { ClientValues(method) :
              method \in {"get_heart_rate", "get_sleep", "get_steps", "get_stress", "get_phn",
                           "get_training_load", "get_sport_load"} }
    \cup { SummaryOf(got) : got \in { run \in ClientRuns(SummaryCalls, 1) : run[Len(run)].ok } }
DumpedValue == [data \in Cacheable |-> json_dumps(data)]
LoadedText == [text \in { DumpedValue[data] : data \in Cacheable } |-> Loaded(text)]

\* _read_cache(data_type, key): json.load of the file, None if there is none
read_cache(files, data_type, key) ==
    IF files[<<data_type, key>>] = Absent THEN JNull
    ELSE IF files[<<data_type, key>>] \in DOMAIN LoadedText
    THEN LoadedText[files[<<data_type, key>>]]
    ELSE Loaded(files[<<data_type, key>>])

\* _write_cache(data_type, key, data): json.dump into the file (the text is
\* kept without the indentation of indent=2)
write_cache(files, data_type, key, data) ==
    [files EXCEPT ![<<data_type, key>>] =
        IF data \in Cacheable THEN DumpedValue[data] ELSE json_dumps(data)]

\* what a handler has done when it returns: the response, the files, and what
\* it read, wrote and called on the way
Handled(status, body, files, reads, writes, calls) ==
    [status |-> status, body |-> body, files |-> files,
     reads |-> reads, writes |-> writes, calls |-> calls]

\* a call of a client method as the handler saw it end
Called(method, got) ==
    [method |-> method, outcome |-> IF got.ok THEN "returned" ELSE "raised"]

\* jsonify({"error": str(e)}), 500
ErrorBody(e) == JDict(<< <<K_error, JStr(e.message)>> >>)

\* the try block of a per-date endpoint, the client having answered `got`
AfterFetch(data_type, date, now, files, reads, method, got) ==
    IF ~got.ok THEN Handled(500, ErrorBody(got), files, reads, {}, <<Called(method, got)>>)
    ELSE IF ~is_empty(got.value) /\ ~is_today(date, now)
    THEN Handled(200, got.value, write_cache(files, data_type, date, got.value),
                 reads, {<<data_type, date>>}, <<Called(method, got)>>)
    ELSE Handled(200, got.value, files, reads, {}, <<Called(method, got)>>)

\* mutant: the cache is not read, the client is always called
PerDate_NoRead(data_type, date, now, files, method, got) ==
    AfterFetch(data_type, date, now, files, {}, method, got)

\* api_heart_rate, api_sleep, api_steps, api_stress, api_phn and (with
\* date = today for no date) api_sport_load: the cache is read unless the date
\* is today, then the client is called
PerDate(data_type, date, now, files, method, got) ==
    IF is_today(date, now) THEN AfterFetch(data_type, date, now, files, {}, method, got)
    ELSE Strict1(LAMBDA cached :
                     IF cached # JNull
                     THEN Handled(200, cached, files, {<<data_type, date>>}, {}, <<>>)
                     ELSE AfterFetch(data_type, date, now, files, {<<data_type, date>>},
                                     method, got),
                 read_cache(files, data_type, date))

\* api_training_load: the key is today's date, the cache is read and written
\* whatever the day
TrainingLoad(now, files, method, got) ==
    Strict1(LAMBDA cached :
                IF cached # JNull
                THEN Handled(200, cached, files, {<<"training-load", now>>}, {}, <<>>)
                ELSE IF ~got.ok
                THEN Handled(500, ErrorBody(got), files, {<<"training-load", now>>}, {},
                             <<Called(method, got)>>)
                ELSE IF ~is_empty(got.value)
                THEN Handled(200, got.value,
                             write_cache(files, "training-load", now, got.value),
                             {<<"training-load", now>>}, {<<"training-load", now>>}, <<Called(method, got)>>)
                ELSE Handled(200, got.value, files, {<<"training-load", now>>}, {}, <<Called(method, got)>>),
            read_cache(files, "training-load", now))

\* mutant: the summary is written as it is built, before the next call
SummaryFetched_EarlyWrite(date, now, files, reads, got) ==
    LET calls == [i \in 1..Len(got) |-> Called(SummaryCalls[i], got[i])]
        partial == JDict(<< <<K_heart_rate, HeartRateSummary(got[1].value)>> >>)
        summary == SummaryOf(got)
    IN  IF ~got[1].ok THEN Handled(500, ErrorBody(got[1]), files, reads, {}, calls)
        ELSE IF ~got[Len(got)].ok
        THEN Handled(500, ErrorBody(got[Len(got)]),
                     IF is_today(date, now) THEN files
                     ELSE write_cache(files, "summary", date, partial),
                     reads, IF is_today(date, now) THEN {} ELSE {<<"summary", date>>}, calls)
        ELSE IF ~is_today(date, now)
        THEN Handled(200, summary, write_cache(files, "summary", date, summary),
                     reads, {<<"summary", date>>}, calls)
        ELSE Handled(200, summary, files, reads, {}, calls)

\* the try block of api_summary, its client calls answering as `got` says:
\* a call that raises ends it, and the summary is written when all four have
\* returned
SummaryFetched(date, now, files, reads, got) ==
    LET calls == [i \in 1..Len(got) |-> Called(SummaryCalls[i], got[i])]
        summary == SummaryOf(got)
    IN  IF ~got[Len(got)].ok
        THEN Handled(500, ErrorBody(got[Len(got)]), files, reads, {}, calls)
        ELSE IF ~is_today(date, now)
        THEN Handled(200, summary, write_cache(files, "summary", date, summary),
                     reads, {<<"summary", date>>}, calls)
        ELSE Handled(200, summary, files, reads, {}, calls)

\* api_summary
Summary(date, now, files, got) ==
    IF is_today(date, now) THEN SummaryFetched(date, now, files, {}, got)
    ELSE Strict1(LAMBDA cached :
                     IF cached # JNull
                     THEN Handled(200, cached, files, {<<"summary", date>>}, {}, <<>>)
                     ELSE SummaryFetched(date, now, files, {<<"summary", date>>}, got),
                 read_cache(files, "summary", date))

---------------------------------------------------------------------------
(* The server, answering one request after another *)

InitServer ==
    /\ zone = [std |-> 0, dst |-> FALSE, dstFrom |-> 0]
    /\ hist = [k \in Days |-> NoRecord]
    /\ call = Idle
    /\ result = Idle
    /\ heart_rate_data = NoData
    /\ steps_data = NoData
    /\ sleep_data = NoData
    /\ tz_offset_hours = 0
    /\ exported = NotExported
    /\ cache = NoFiles
    /\ today = 1
    /\ served = 0
    /\ cli = NoCommand
    /\ disk = {}
    /\ threads = <<>>
    /\ upstream = <<>>

\* a request to `endpoint` has been answered as `done` says
Answer(endpoint, data_type, date, done) ==
    /\ call' = [kind |-> "call", method |-> endpoint, data_type |-> data_type,
                date |-> date, now |-> today,
                reads |-> done.reads, writes |-> done.writes, calls |-> done.calls]
    /\ result' = [status |-> done.status, body |-> done.body]
    /\ cache' = done.files
    /\ served' = served + 1
    /\ UNCHANGED <<cliVars, raceVars, zone, hist, exportVars, today>>

\* GET /api/heart-rate/<date>
api_heart_rate ==
    /\ served < MaxRequests
    /\ \E date \in ServerDates :
       \E done \in { PerDate("heart-rate", date, today, cache, "get_heart_rate", got) :
                     got \in ClientOutcomes("get_heart_rate") } :
          Answer("api_heart_rate", "heart-rate", date, done)

\* GET /api/sleep/<date>
api_sleep ==
    /\ served < MaxRequests
    /\ \E date \in ServerDates :
       \E done \in { PerDate("sleep", date, today, cache, "get_sleep", got) :
                     got \in ClientOutcomes("get_sleep") } :
          Answer("api_sleep", "sleep", date, done)

\* GET /api/steps/<date>
api_steps ==
    /\ served < MaxRequests
    /\ \E date \in ServerDates :
       \E done \in { PerDate("steps", date, today, cache, "get_steps", got) :
                     got \in ClientOutcomes("get_steps") } :
          Answer("api_steps", "steps", date, done)

\* GET /api/stress/<date>
api_stress ==
    /\ served < MaxRequests
    /\ \E date \in ServerDates :
       \E done \in { PerDate("stress", date, today, cache, "get_stress", got) :
                     got \in ClientOutcomes("get_stress") } :
          Answer("api_stress", "stress", date, done)

\* GET /api/phn/<date>
api_phn ==
    /\ served < MaxRequests
    /\ \E date \in ServerDates :
       \E done \in { PerDate("phn", date, today, cache, "get_phn", got) :
                     got \in ClientOutcomes("get_phn") } :
          Answer("api_phn", "phn", date, done)

\* GET /api/training-load
api_training_load ==
    /\ served < MaxRequests
    /\ \E done \in { TrainingLoad(today, cache, "get_training_load", got) :
                        got \in ClientOutcomes("get_training_load") } :
          Answer("api_training_load", "training-load", today, done)

\* the route without a date: `date` is None
NoDate == 0

\* GET /api/sport-load and GET /api/sport-load/<date>: no date stands for today
api_sport_load ==
    /\ served < MaxRequests
    /\ \E given \in ServerDates \cup {NoDate} :
       \E date \in {IF given = NoDate THEN today ELSE given} :
       \E done \in { PerDate("sport-load", date, today, cache, "get_sport_load", got) :
                     got \in ClientOutcomes("get_sport_load") } :
          Answer("api_sport_load", "sport-load", date, done)

\* GET /api/summary/<date>
api_summary ==
    /\ served < MaxRequests
    /\ \E date \in ServerDates :
       \E done \in { Summary(date, today, cache, got) : got \in ClientRuns(SummaryCalls, 1) } :
          Answer("api_summary", "summary", date, done)

\* midnight: datetime.now() shows the next day
Midnight ==
    /\ today < LastDay
    /\ today' = today + 1
    /\ UNCHANGED <<cliVars, raceVars, clientVars, exportVars, cache, served>>

NextServer ==
    \/ api_heart_rate \/ api_sleep \/ api_steps \/ api_stress \/ api_phn
    \/ api_training_load \/ api_sport_load \/ api_summary
    \/ Midnight

SpecServer == InitServer /\ [][NextServer]_vars

---------------------------------------------------------------------------
(* The cache and the current day *)

ServerEndpoints ==
    {"api_heart_rate", "api_sleep", "api_steps", "api_stress", "api_phn",
     "api_training_load", "api_sport_load", "api_summary"}

\* the step answers a request
Requested == served' = served + 1

\* C18: whatever the requests so far, the request last answered has read and
\* written no cache file of the day that was today when it was answered
C18_TodayNeverCached ==
    (call.kind = "call" /\ call.method \in ServerEndpoints)
        => \A key \in call.reads \cup call.writes : key[2] # call.now

---------------------------------------------------------------------------
(* Read before fetch *)

\* C19: for the per-date endpoints and a date before today, (1) a request
\* that fetches non-empty data leaves it in the cache file of that endpoint
\* and date, (2) a file once written is never changed, and (3) a request
\* that finds the file answers 200 with what the file holds and calls no
\* client method, whatever the client would return; so every request after
\* a non-empty fetch gets the value that fetch stored
C19_ReadBeforeFetch ==
    [][/\ \A data_type \in PerDateTypes, date \in ServerDates :
             (cache[<<data_type, date>>] # Absent)
                 => (cache'[<<data_type, date>>] = cache[<<data_type, date>>])
       /\ (Requested /\ call'.data_type \in PerDateTypes /\ call'.date < call'.now)
             => /\ (cache[<<call'.data_type, call'.date>>] # Absent)
                      => /\ call'.calls = <<>>
                         /\ result'.status = 200
                         /\ result'.body = read_cache(cache, call'.data_type, call'.date)
                /\ (/\ cache[<<call'.data_type, call'.date>>] = Absent
                    /\ result'.status = 200
                    /\ ~is_empty(result'.body))
                      => /\ cache'[<<call'.data_type, call'.date>>] # Absent
                         /\ read_cache(cache', call'.data_type, call'.date) = result'.body
      ]_vars

\* a second request for the heart rate of a past day has been answered from
\* the file the first one wrote
C19_Witness ==
    /\ served = 2
    /\ call.kind = "call"
    /\ call.method = "api_heart_rate"
    /\ call.date < call.now
    /\ call.calls = <<>>
    /\ call.reads = {<<"heart-rate", call.date>>}
    /\ cache[<<"heart-rate", call.date>>] # Absent
    /\ result.status = 200
    /\ result.body = HeartRateData(<<62, 64, 79>>)

---------------------------------------------------------------------------
(* Errors of the client *)

\* C20: a request during which a client method raises ZeppAuthError or
\* ZeppAPIError is answered 500 with a body that has an "error" field, and
\* leaves every cache file as it was; for api_summary whichever of its four
\* calls raises
C20_ClientErrors ==
    [][(Requested /\ \E i \in 1..Len(call'.calls) : call'.calls[i].outcome = "raised")
           => /\ result'.status = 500
              /\ result'.body.kind = "dict"
              /\ \E k \in 1..Len(result'.body.val) : result'.body.val[k][1] = K_error
              /\ cache' = cache
      ]_vars

\* the summary of a past day was asked for and the last of the four calls
\* raised after the first three had returned
C20_Witness ==
    /\ call.kind = "call"
    /\ call.method = "api_summary"
    /\ call.date < call.now
    /\ Len(call.calls) = 4
    /\ \A i \in 1..3 : call.calls[i].outcome = "returned"
    /\ call.calls[4].outcome = "raised"
    /\ result.status = 500
    /\ cache[<<"summary", call.date>>] = Absent

---------------------------------------------------------------------------
(* Claims: the step records of the export *)

IsStepCountRecord(r) == r.type = "HKQuantityTypeIdentifierStepCount"
StepCountRecords == SelectSeq(exported.file, IsStepCountRecord)

\* the step records whose startDate falls on date d
StepCountRecordsOn(d) ==
    SelectSeq(StepCountRecords, LAMBDA r : r.startDate.day = d)

\* C21: the file holds exactly one StepCount record for each date of
\* steps_data whose entry is a non-empty steps record, with value total_steps,
\* startDate 00:00 and endDate 23:59 of that date, and no StepCount record for
\* a date whose entry is empty
C21_OneStepRecordPerDay ==
    Written =>
        \A d \in DOMAIN steps_data :
            IF steps_data[d].kind = "steps"
            THEN /\ Len(StepCountRecordsOn(d)) = 1
                 /\ StepCountRecordsOn(d)[1].value = steps_data[d].total_steps
                 /\ StepCountRecordsOn(d)[1].startDate = Stamp(d, 0)
                 /\ StepCountRecordsOn(d)[1].endDate = Stamp(d, 1439)
            ELSE Len(StepCountRecordsOn(d)) = 0

---------------------------------------------------------------------------
(* Claims: the errors of the transport *)

\* C22: a request that fails is reported as one of three kinds that can be
\* told apart: a network failure as a transport error, which is neither the
\* authentication error nor the API error; otherwise a 401 as ZeppAuthError;
\* otherwise a status other than 200 as ZeppAPIError with that status code;
\* otherwise a body that is not JSON as ZeppAPIError; and a 200 with a JSON
\* body raises nothing
C22_ThreeErrorKinds ==
    (call # Idle) =>
        LET resp == call.resp
            r == Request(resp)
        IN  IF ~resp.net_ok
            THEN IsRaise(r) /\ r.error \notin {"ZeppAuthError", "ZeppAPIError"}
            ELSE IF resp.status_code = 401
            THEN IsRaise(r) /\ r.error = "ZeppAuthError"
            ELSE IF resp.status_code # 200
            THEN /\ IsRaise(r)
                 /\ r.error = "ZeppAPIError"
                 /\ r.status_code = resp.status_code
            ELSE IF ~resp.json_ok
            THEN IsRaise(r) /\ r.error = "ZeppAPIError"
            ELSE ~IsRaise(r)

---------------------------------------------------------------------------
(* Claims: the requests of a query *)

---------------------------------------------------------------------------
(* Claims: the order of the scan *)

\* position i of the response holds the record stored under day-key k
StoredUnder(i, k) == call.resp.data[i].date_time = k

\* C24: when the record stored under D-1 and the record stored under D both
\* hold a session whose end falls on D, get_sleep(D) returns the session of
\* the record stored under D-1
C24_PreviousDayFirst ==
    (Fetched("get_sleep") /\ call.method = "get_sleep") =>
        \A i \in Positions, j \in Positions :
            (/\ StoredUnder(i, call.date - 1) /\ EndsOnWakeDate(i)
             /\ StoredUnder(j, call.date) /\ EndsOnWakeDate(j))
                => (Returns(i) /\ result.fetched_from = call.date - 1)

\* ---------------------------------------------------------------------
\* C25: the ranges of a heart-rate sample

\* "HH:MM" with two digits each, HH in 00..23 and MM in 00..59
IsHourMinuteLabel(time) ==
    \E hh \in 0..23, mm \in 0..59 : time = Pad2(hh) \o ":" \o Pad2(mm)

\* C25: for every input byte sequence, every sample decode_heart_rate returns
\* has its minute in 0..1439, its bpm in 1..253 and a time label that is the
\* zero-padded HH:MM of that minute, with HH in 00..23.
C25_SampleRanges ==
    (OfBytes("decode_heart_rate") /\ result.ok) =>
        \A j \in 1..Len(result.value) :
            /\ result.value[j].minute \in 0..1439
            /\ result.value[j].bpm \in 1..253
            /\ IsHourMinuteLabel(result.value[j].time)

\* ---------------------------------------------------------------------
\* C26: the counts returned and the records written

\* C26: the three counts export_apple_health returns are the numbers of
\* HeartRate, StepCount and SleepAnalysis Record elements of the file it
\* wrote, the file holds no Record element of another type, and hr_count is
\* the number of heart-rate samples of all input dates together.
C26_CountsMatchFile ==
    Written =>
        /\ exported.hr_count = Len(HeartRateRecords)
        /\ exported.steps_count = Len(StepCountRecords)
        /\ exported.sleep_count = Len(SleepRecords)
        /\ \A i \in 1..Len(exported.file) :
              \/ IsHeartRateRecord(exported.file[i])
              \/ IsStepCountRecord(exported.file[i])
              \/ IsSleepRecord(exported.file[i])
        /\ exported.hr_count = Len(ReadingsOfDates(1))

\* a file with records of all three types, an InBed record among them
C26_Witness ==
    /\ Written
    /\ exported.hr_count >= 2
    /\ exported.steps_count >= 1
    /\ exported.sleep_count >= 2
    /\ Len(InBedRecords) >= 1
    /\ Len(StageRecords) >= 1

\* ---------------------------------------------------------------------
\* C28: responses without health data and the cache

\* the summary of a date for which every metric came back empty
EmptySummary ==
    JDict(<< <<K_heart_rate, JNull>>, <<K_sleep, JNull>>,
             <<K_steps, JNull>>, <<K_stress, JNull>> >>)

\* the last request was answered from upstream, and upstream had nothing:
\* None, [] or {} for the one metric of a per-date endpoint, or for each of
\* the four metrics of the summary
UpstreamHadNothing ==
    /\ call # Idle
    /\ call.calls # <<>>
    /\ result.status = 200
    /\ \/ is_empty(result.body)
       \/ call.method = "api_summary" /\ result.body = EmptySummary

\* C28: on every endpoint, a request for which the upstream client returned
\* nothing writes no cache entry.
C28_EmptyNeverCached ==
    UpstreamHadNothing => call.writes = {}

\* ---------------------------------------------------------------------
\* C30: one wake date per stored session

\* over the history as it is stored now, get_sleep(date) can return the
\* session of the record stored under day-key k
SleepOfDateFrom(date, k) ==
    \E resp \in BandDataOk(PrevDate(date), date) :
        /\ get_sleep(date, resp).kind = "sleep"
        /\ get_sleep(date, resp).fetched_from = k

\* C30: over a fixed stored history, if get_sleep(D) has returned the session
\* stored under day-key K, then get_sleep(D') returns that session for no
\* other date D'.
C30_OneWakeDatePerSession ==
    (Fetched("get_sleep") /\ result.kind = "sleep") =>
        \A other \in Days \ {call.date} : ~SleepOfDateFrom(other, result.fetched_from)

---------------------------------------------------------------------------
(* cli.py: the pull and export commands *)

\* the --type values
CliTypes == {"heart-rate", "sleep", "steps", "stress", "training-load", "sport-load", "all"}

\* the --format values of export
CliFormats == {"json", "csv", "apple-health"}

CliDates == 1..MaxRangeDays

\* the command lines: the command, --type, the date range and, for export,
\* --format (pull has none: it stands as "json"); --output is not given
CliArgs ==
    { args \in [command : {"pull", "export"}, format : CliFormats, data_type : CliTypes,
                from_date : CliDates, to_date : CliDates] :
         /\ args.from_date <= args.to_date
         /\ args.command = "pull" => args.format = "json" }

\* iter_dates(from_date, to_date)
iter_dates(from_date, to_date) ==
    [i \in 1..(to_date - from_date + 1) |-> from_date + i - 1]

\* a call of a client method for a date or a range of dates
Fetch(method, from_date, to_date) ==
    [method |-> method, from_date |-> from_date, to_date |-> to_date]

\* the calls of a block that is entered when --type is one of `types`
When(data_type, types, calls) == IF data_type \in types THEN calls ELSE <<>>

\* `for date in iter_dates(...)` around one call of `method`
PerDateCalls(method, dates) ==
    [i \in 1..Len(dates) |-> Fetch(method, dates[i], dates[i])]

\* the client calls of cmd_pull, in the order it makes them: data type by
\* data type, each per-date type for all dates
PullCalls(args) ==
    LET dates == iter_dates(args.from_date, args.to_date)
        t == args.data_type
    IN  When(t, {"heart-rate", "all"}, PerDateCalls("get_heart_rate", dates))
        \o When(t, {"sleep", "all"}, PerDateCalls("get_sleep", dates))
        \o When(t, {"steps", "all"}, PerDateCalls("get_steps", dates))
        \o When(t, {"stress", "all"}, <<Fetch("get_stress", args.from_date, args.to_date)>>)
        \o When(t, {"training-load", "all"},
                <<Fetch("get_training_load", args.from_date, args.to_date)>>)
        \o When(t, {"sport-load", "all"},
                <<Fetch("get_sport_load", args.from_date, args.to_date)>>)

\* the calls of the date loop of cmd_export from date i on: date by date,
\* heart rate, steps, sleep
RECURSIVE ExportDayCalls(_, _, _)
ExportDayCalls(data_type, dates, i) ==
    IF i > Len(dates) THEN <<>>
    ELSE When(data_type, {"heart-rate", "all"}, <<Fetch("get_heart_rate", dates[i], dates[i])>>)
         \o When(data_type, {"steps", "all"}, <<Fetch("get_steps", dates[i], dates[i])>>)
         \o When(data_type, {"sleep", "all"}, <<Fetch("get_sleep", dates[i], dates[i])>>)
         \o ExportDayCalls(data_type, dates, i + 1)

\* the client calls of cmd_export: csv has the stress of the range after the
\* date loop, apple-health the date loop only, json those of cmd_pull
ExportCalls(args) ==
    CASE args.format = "csv" ->
            ExportDayCalls(args.data_type, iter_dates(args.from_date, args.to_date), 1)
            \o When(args.data_type, {"stress", "all"},
                    <<Fetch("get_stress", args.from_date, args.to_date)>>)
      [] args.format = "apple-health" ->
            ExportDayCalls(args.data_type, iter_dates(args.from_date, args.to_date), 1)
      [] OTHER -> PullCalls(args)

\* the default output file: zepp_{data_type}_{from}_to_{to}.json of pull and
\* of export as json, zepp_{data_type}_{from}_to_{to}.csv,
\* zepp_apple_health_{from}_to_{to}.xml
OutputPath(args) ==
    [stem |-> IF args.command = "export" /\ args.format = "apple-health"
              THEN "apple_health" ELSE args.data_type,
     from_date |-> args.from_date,
     to_date |-> args.to_date,
     suffix |-> CASE args.command = "export" /\ args.format = "csv" -> "csv"
                  [] args.command = "export" /\ args.format = "apple-health" -> "xml"
                  [] OTHER -> "json"]

\* what the command writes, as the data it hands to the writer: for json
\* every value fetched, under its call; for csv and apple-health the values
\* that are not empty (an empty value adds no row and no record)
OutputContent(args, calls, got) ==
    LET kept == SelectSeq([i \in 1..Len(calls) |-> [call |-> calls[i], value |-> got[i].value]],
                          LAMBDA e : OutputPath(args).suffix = "json" \/ ~is_empty(e.value))
    IN  [writer |-> OutputPath(args).suffix, data |-> kept]

\* open(path, "w") and the write: the file is created or replaced
Saved(files, path, content) ==
    {f \in files : f.path # path} \cup {[path |-> path, content |-> content]}

\* how a command ends: the exit status, the files, the client calls made
Ended(exit_code, files, calls) ==
    [exit_code |-> exit_code, files |-> files, calls |-> calls]

\* mutant: the except handler saves what was fetched before it exits
OnClientError_SaveFetched(files, path, content) == Saved(files, path, content)

\* `except ZeppAuthError` and `except ZeppAPIError`: a message and
\* sys.exit(1); the files stay as they are
OnClientError(files, path, content) == files

\* a command whose client calls are `calls`, the client answering `got`: the
\* run ends at the first call that raises, with status 1; after the last
\* call has returned the file is written
RunCommand(args, files, calls, got) ==
    LET log == [i \in 1..Len(got) |-> Called(calls[i].method, got[i])]
        made == SubSeq(calls, 1, Len(got))
    IN  IF Len(got) > 0 /\ ~got[Len(got)].ok
        THEN Ended(1,
                   OnClientError(files, OutputPath(args),
                                 OutputContent(args, SubSeq(made, 1, Len(got) - 1),
                                               SubSeq(got, 1, Len(got) - 1))),
                   log)
        ELSE Ended(0, Saved(files, OutputPath(args), OutputContent(args, calls, got)), log)

\* cmd_pull(args)
cmd_pull(args, files, got) == RunCommand(args, files, PullCalls(args), got)

\* cmd_export(args); --format json is handed to cmd_pull
cmd_export(args, files, got) ==
    IF args.format = "json" THEN cmd_pull(args, files, got)
    ELSE RunCommand(args, files, ExportCalls(args), got)

\* the methods of a sequence of calls
Methods(calls) == [i \in 1..Len(calls) |-> calls[i].method]

\* the command line has been given
Invoked(args) == [kind |-> "invoked", args |-> args]

\* what was in the output file before the command
Previous == [writer |-> "earlier", data |-> <<>>]

\* a command line has been given; its output file is not there yet, or is
\* there from an earlier run
InitCli ==
    /\ zone = [std |-> 0, dst |-> FALSE, dstFrom |-> 0]
    /\ hist = [k \in Days |-> NoRecord]
    /\ call = Idle
    /\ result = Idle
    /\ heart_rate_data = NoData
    /\ steps_data = NoData
    /\ sleep_data = NoData
    /\ tz_offset_hours = 0
    /\ exported = NotExported
    /\ cache = NoFiles
    /\ today = 1
    /\ served = 0
    /\ \E args \in CliArgs :
          /\ cli = Invoked(args)
          /\ disk \in { {}, {[path |-> OutputPath(args), content |-> Previous]} }
    /\ threads = <<>>
    /\ upstream = <<>>

\* the command has run to its end
Exit(done) ==
    /\ cli' = [kind |-> "exited", args |-> cli.args, calls |-> done.calls,
               exit_code |-> done.exit_code]
    /\ disk' = done.files
    /\ UNCHANGED <<clientVars, exportVars, serverVars, raceVars>>

\* python -m zepp_export pull ...
Pull ==
    /\ cli.kind = "invoked"
    /\ cli.args.command = "pull"
    /\ \E done \in { cmd_pull(cli.args, disk, got) :
                        got \in ClientRuns(Methods(PullCalls(cli.args)), 1) } :
          Exit(done)

\* python -m zepp_export export ...
Export ==
    /\ cli.kind = "invoked"
    /\ cli.args.command = "export"
    /\ \E done \in { cmd_export(cli.args, disk, got) :
                        got \in ClientRuns(Methods(ExportCalls(cli.args)), 1) } :
          Exit(done)

NextCli == Pull \/ Export

SpecCli == InitCli /\ [][NextCli]_vars

\* ---------------------------------------------------------------------
\* C27: the output file and failed fetches

\* the step is the run of a command
Ran == cli.kind = "invoked" /\ cli'.kind = "exited"

\* C27: a run of pull or export in which a client call raises ZeppAuthError
\* or ZeppAPIError exits with status 1 and leaves every file as it was,
\* whatever was fetched before; a run that creates or changes a file has
\* made all calls of the command and each of them returned.
C27_NoFileAfterFailure ==
    [][Ran =>
         /\ (\E i \in 1..Len(cli'.calls) : cli'.calls[i].outcome = "raised")
               => (cli'.exit_code = 1 /\ disk' = disk)
         /\ (disk' # disk)
               => /\ cli'.exit_code = 0
                  /\ Len(cli'.calls)
                       = Len(IF cli.args.command = "pull"
                             THEN PullCalls(cli.args) ELSE ExportCalls(cli.args))
                  /\ \A i \in 1..Len(cli'.calls) : cli'.calls[i].outcome = "returned"
      ]_vars

\* pull --type all over two days has exited with status 1 at its fourth
\* call, after the heart rate of both days and the sleep of the first had
\* been fetched, and the file of the earlier run is as it was
C27_Witness ==
    /\ cli.kind = "exited"
    /\ cli.args.command = "pull"
    /\ cli.args.data_type = "all"
    /\ cli.args.from_date < cli.args.to_date
    /\ Len(cli.calls) = 4
    /\ \A i \in 1..3 : cli.calls[i].outcome = "returned"
    /\ cli.calls[4].outcome = "raised"
    /\ cli.exit_code = 1
    /\ disk = {[path |-> OutputPath(cli.args), content |-> Previous]}

---------------------------------------------------------------------------
(* server.py: concurrent requests to /api/heart-rate/<date>.  The handlers
   take no lock, so the steps of two requests interleave at every call that
   touches the cache file or the client. *)

Threads == 1..MaxThreads

\* the date all the requests name: yesterday
RaceDate == today - 1

RaceKey == <<"heart-rate", RaceDate>>

\* what client.get_heart_rate can come to while the requests run: no
\* readings, the readings synced so far, those of the whole day, or an error
RaceOutcomes ==
    { Decoded(v) : v \in ClientValues("get_heart_rate") \cup {HeartRateData(<<62>>)} }
    \cup { ClientError("ZeppAuthError"), ClientError("ZeppAPIError") }

\* a request thread that has not started its handler
Arrived == [pc |-> "read", data |-> JNull, status |-> 0, body |-> JNull]

\* the handler has returned, or an exception has left it (status 500)
Responded(status, body) == [pc |-> "done", data |-> JNull, status |-> status, body |-> body]

\* _read_cache as the thread finds the file: None if it is not there,
\* json.load of its text if it is; a text that is not JSON (a file another
\* thread has opened for writing and not written yet) raises JSONDecodeError,
\* which the handler does not catch
AfterRead(file) ==
    IF file = Absent THEN [Arrived EXCEPT !.pc = "fetch"]
    ELSE IF json_loads(Str(file)).ok THEN Responded(200, json_loads(Str(file)).value)
    ELSE Responded(500, JNull)

\* the client having answered `got`: the error response, the response
\* without a write (empty data, or today), or on to _write_cache
AfterCall(date, now, got) ==
    IF ~got.ok THEN Responded(500, ErrorBody(got))
    ELSE IF ~is_empty(got.value) /\ ~is_today(date, now)
    THEN [pc |-> "open", data |-> got.value, status |-> 0, body |-> JNull]
    ELSE Responded(200, got.value)

\* the file after a thread that opened it with "w" writes `text` at its own
\* offset 0: what other threads wrote beyond the end of `text` since stays
Overwritten(file, text) ==
    IF file = Absent \/ Len(file) <= Len(text) THEN text
    ELSE text \o SubSeq(file, Len(text) + 1, Len(file))

\* the requests have arrived; the cache is empty and the date is past
InitRace ==
    /\ zone = [std |-> 0, dst |-> FALSE, dstFrom |-> 0]
    /\ hist = [k \in Days |-> NoRecord]
    /\ call = Idle
    /\ result = Idle
    /\ heart_rate_data = NoData
    /\ steps_data = NoData
    /\ sleep_data = NoData
    /\ tz_offset_hours = 0
    /\ exported = NotExported
    /\ cache = NoFiles
    /\ today = LastDay
    /\ served = 0
    /\ cli = NoCommand
    /\ disk = {}
    /\ threads = [t \in Threads |-> Arrived]
    /\ upstream = <<>>

\* `if not _is_today(date): cached = _read_cache(...); if cached is not
\* None: return jsonify(cached)`
ReadCache(t) ==
    /\ threads[t].pc = "read"
    /\ threads' = [threads EXCEPT ![t] =
                      IF is_today(RaceDate, today) THEN [Arrived EXCEPT !.pc = "fetch"]
                      ELSE AfterRead(cache[RaceKey])]
    /\ UNCHANGED <<clientVars, exportVars, serverVars, cliVars, upstream>>

\* `data = client.get_heart_rate(date)` and the tests that follow it
CallClient(t) ==
    /\ threads[t].pc = "fetch"
    /\ \E got \in RaceOutcomes :
          /\ upstream' = Append(upstream, got)
          /\ threads' = [threads EXCEPT ![t] = AfterCall(RaceDate, today, got)]
    /\ UNCHANGED <<clientVars, exportVars, serverVars, cliVars>>

\* _write_cache: open(path, "w") creates the file or truncates it
OpenCacheFile(t) ==
    /\ threads[t].pc = "open"
    /\ cache' = [cache EXCEPT ![RaceKey] = <<>>]
    /\ threads' = [threads EXCEPT ![t].pc = "dump"]
    /\ UNCHANGED <<clientVars, exportVars, today, served, cliVars, upstream>>

\* _write_cache: json.dump and the close of the file, which writes the text
\* (kept without the indentation of indent=2); then `return jsonify(data)`
DumpCacheFile(t) ==
    /\ threads[t].pc = "dump"
    /\ cache' = [cache EXCEPT ![RaceKey] = Overwritten(@, json_dumps(threads[t].data))]
    /\ threads' = [threads EXCEPT ![t] = Responded(200, threads[t].data)]
    /\ UNCHANGED <<clientVars, exportVars, today, served, cliVars, upstream>>

NextRace ==
    \E t \in Threads :
        ReadCache(t) \/ CallClient(t) \/ OpenCacheFile(t) \/ DumpCacheFile(t)

SpecRace == InitRace /\ [][NextRace]_vars

\* ---------------------------------------------------------------------
\* C29: concurrent requests for the same date

\* every request has been answered
AllResponded == \A t \in Threads : threads[t].pc = "done"

\* C29: while requests to the same per-date endpoint for the same past date
\* interleave, if the first client call returned non-empty data the client
\* is called once at most, and when all requests are answered the cache file
\* holds a value that one of the client calls returned.
C29_OneUpstreamCall ==
    (upstream # <<>> /\ upstream[1].ok /\ ~is_empty(upstream[1].value)) =>
        /\ Len(upstream) <= 1
        /\ AllResponded =>
              \E i \in 1..Len(upstream) :
                  /\ upstream[i].ok
                  /\ cache[RaceKey] = json_dumps(upstream[i].value)

====
